---- MODULE Spec2Model ----
(***************************************************************************)
(* Idempotent transaction creation with per-key locks (lockRegistry), the *)
(* record store guarded by MuTransactions, the idempotency cache and its  *)
(* TTL sweeper.  Every request handler is one process; each step below is *)
(* one lock operation or one access to shared state of the handler code.  *)
(***************************************************************************)
EXTENDS Integers, Sequences, FiniteSets, TLC

\* ---------------------------------------------------------------- bounds
NumProcs == 2
MaxRequests == 3
MaxTime == 2
SweepProcs == 1
MaxListed == 3
NumDepositors == 3

\* ------------------------------------------------------ program constants
idemTTL == 1
StatusAccepted == 202
StatusConflict == 409
StatusBadRequest == 400
StatusOK == 200
StatusCreated == 201
StatusNotFound == 404
defaultEntriesLimit == 20
maxEntriesLimit == 100

\* ------------------------------------------------------------ input sets
Procs == 1..NumProcs
SweeperId == NumProcs + 1
Free == 0

\* float64 amounts: finite values are integers, the non-finite ones are codes
FloatPosInf == 1000000
FloatNegInf == 0 - FloatPosInf
FloatNaN == 1000001

Keys == {"k1", "k2"}
NoKey == ""

P1 == [FromAccountID |-> "A1", ToAccountID |-> "A2", Amount |-> 10]
P2 == [FromAccountID |-> "A1", ToAccountID |-> "A2", Amount |-> 20]
PBad == [FromAccountID |-> "A1", ToAccountID |-> "A1 ", Amount |-> 10]
Payloads == {P1, P2, PBad}

\* requests that validation has to reject, one for each rule
PBlankFrom == [FromAccountID |-> " ", ToAccountID |-> "A2", Amount |-> 10]
PBlankTo == [FromAccountID |-> "A1", ToAccountID |-> "", Amount |-> 10]
PZero == [FromAccountID |-> "A1", ToAccountID |-> "A2", Amount |-> 0]
PNegative == [FromAccountID |-> "A1", ToAccountID |-> "A2", Amount |-> 0 - 100]
PNaN == [FromAccountID |-> "A1", ToAccountID |-> "A2", Amount |-> FloatNaN]
PInf == [FromAccountID |-> "A1", ToAccountID |-> "A2", Amount |-> FloatPosInf]
InvalidPayloads == {PBad, PBlankFrom, PBlankTo, PZero, PNegative, PNaN, PInf}

\* valid requests that differ from P1 in exactly one field
PToA3 == [FromAccountID |-> "A1", ToAccountID |-> "A3", Amount |-> 10]
PFromA3 == [FromAccountID |-> "A3", ToAccountID |-> "A2", Amount |-> 10]
FingerprintPayloads == {P1, P2, PToA3, PFromA3}

KLObjs == 1..NumProcs
NoKL == 0

\* ------------------------------------------------------------ data types
StatusPending == 0

statusName(ts) ==
  CASE ts = 0 -> "pending"
    [] ts = 1 -> "completed"
    [] ts = 2 -> "failed"
    [] OTHER -> "invalid"

\* time.Time{}: the zero time, before every reading of the clock
ZeroTime == 0 - 1

ZeroTransaction ==
  [ID |-> 0, FromAccountID |-> "", ToAccountID |-> "", Amount |-> 0,
   At |-> ZeroTime, Status |-> StatusPending]

NoResponse == [status |-> 0, location |-> <<>>, body |-> <<>>]

\* ------------------------------------------------------- pure functions
TrimSpace(s) ==
  CASE s = " " -> ""
    [] s = "A1 " -> "A1"
    [] s = "A2 " -> "A2"
    [] OTHER -> s

\* math.IsNaN, math.IsInf(x, 0), and x <= 0 (false for NaN)
IsNaN(a) == a = FloatNaN
IsInf(a) == a \in {FloatPosInf, FloatNegInf}
LessEqZero(a) == ~IsNaN(a) /\ a <= 0

\* faulty variant: source and destination are compared without trimming
validateUntrimmed(in) ==
  (IF TrimSpace(in.FromAccountID) = "" THEN <<"from_account_id">> ELSE <<>>)
  \o (IF TrimSpace(in.ToAccountID) = "" \/ in.FromAccountID = in.ToAccountID
      THEN <<"to_account_id">> ELSE <<>>)
  \o (IF LessEqZero(in.Amount) \/ IsNaN(in.Amount) \/ IsInf(in.Amount)
      THEN <<"amount">> ELSE <<>>)

\* the list of invalid fields, in the order the code appends them
validateTransactionRequest(in) ==
  (IF TrimSpace(in.FromAccountID) = "" THEN <<"from_account_id">> ELSE <<>>)
  \o (IF TrimSpace(in.ToAccountID) = ""
         \/ TrimSpace(in.FromAccountID) = TrimSpace(in.ToAccountID)
      THEN <<"to_account_id">> ELSE <<>>)
  \o (IF LessEqZero(in.Amount) \/ IsNaN(in.Amount) \/ IsInf(in.Amount)
      THEN <<"amount">> ELSE <<>>)

\* json.Marshal of the request struct: its three fields in declaration order
MarshalRequest(in) == <<in.FromAccountID, in.ToAccountID, in.Amount>>

\* faulty variant: to_account_id is left out of the marshalled request
fingerprintNoTo(in) == <<"sha256", <<in.FromAccountID, in.Amount>>>>

\* faulty variant: the amount is left out of the digest
fingerprintNoAmount(in) == <<"sha256", <<in.FromAccountID, in.ToAccountID>>>>

\* the digest is taken as injective on the marshalled bytes
fingerprint(in) == <<"sha256", MarshalRequest(in)>>

\* json.Marshal of a Transaction: fields in declaration order, status by name
MarshalTransaction(tr) ==
  <<tr.ID, tr.FromAccountID, tr.ToAccountID, tr.Amount, tr.At,
    statusName(tr.Status)>>

LocationOf(id) == <<"/transactions/", id>>

ErrorBody(msg) == <<"error", msg>>

\* faulty variant: the key != "" test is dropped
HasKeyAlways(k) == TRUE

\* if key != ""
HasKey(k) == k # NoKey

\* ------------------------------------------------- listing: pure functions
\* query values are sequences of characters; "" is <<>>
IsDigit(c) == c \in {"0", "1", "2", "3", "4", "5", "6", "7", "8", "9"}

DigitVal(c) ==
  CASE c = "0" -> 0 [] c = "1" -> 1 [] c = "2" -> 2 [] c = "3" -> 3
    [] c = "4" -> 4 [] c = "5" -> 5 [] c = "6" -> 6 [] c = "7" -> 7
    [] c = "8" -> 8 [] c = "9" -> 9

RECURSIVE DigitsVal(_)
DigitsVal(ds) ==
  IF ds = <<>> THEN 0
  ELSE 10 * DigitsVal(SubSeq(ds, 1, Len(ds) - 1)) + DigitVal(ds[Len(ds)])

\* strconv.Atoi: an optional sign, then one or more decimal digits
Atoi(q) ==
  LET signed == q # <<>> /\ q[1] \in {"+", "-"}
      ds == IF signed THEN Tail(q) ELSE q
  IN IF ds # <<>> /\ \A i \in 1..Len(ds) : IsDigit(ds[i])
     THEN [ok |-> TRUE,
           n |-> IF signed /\ q[1] = "-" THEN 0 - DigitsVal(ds)
                 ELSE DigitsVal(ds)]
     ELSE [ok |-> FALSE, n |-> 0]

\* strings.TrimSpace(q) == "" on a sequence of characters
IsBlank(q) == \A i \in 1..Len(q) : q[i] = " "

\* the limits parseLimit names (the const block calls them
\* defaultEntriesLimit and maxEntriesLimit)
defaultLimit == defaultEntriesLimit
maxLimit == maxEntriesLimit

parseLimit(q) ==
  IF IsBlank(q) THEN [err |-> FALSE, n |-> defaultLimit]
  ELSE LET a == Atoi(q) IN
       IF ~a.ok \/ a.n <= 0 THEN [err |-> TRUE, n |-> 0]
       ELSE [err |-> FALSE, n |-> IF a.n > maxLimit THEN maxLimit ELSE a.n]

\* trCursor and its zero value
ZeroCursor == [At |-> ZeroTime, ID |-> 0, FA |-> ""]

\* base64 of the JSON object {"at":..,"id":..,"fa":..}
encodeCursor(c) == <<"b64", "at", c.At, "id", c.ID, "fa", c.FA>>

\* tokens no encodeCursor produces: not base64, base64 of something that is
\* not the JSON object, and a JSON object whose fields are zero
NotBase64 == <<"%%">>
NotJSON == <<"b64", "{">>
ZeroFieldsCursor == encodeCursor(ZeroCursor)

decodeCursor(s) ==
  IF IsBlank(s) THEN [err |-> "", cur |-> ZeroCursor]
  ELSE IF s[1] # "b64"
       THEN [err |-> "invalid cursor encoding", cur |-> ZeroCursor]
  ELSE IF Len(s) # 7 \/ s[2] # "at" \/ s[4] # "id" \/ s[6] # "fa"
       THEN [err |-> "invalid cursor payload", cur |-> ZeroCursor]
  ELSE LET c == [At |-> s[3], ID |-> s[5], FA |-> s[7]] IN
       IF c.At = ZeroTime \/ c.ID = 0
       THEN [err |-> "invalid cursor fields", cur |-> c]
       ELSE [err |-> "", cur |-> c]

\* the less function handed to sort.Slice: At ascending, then ID ascending
lessAtID(a, b) ==
  IF a.At < b.At THEN TRUE
  ELSE IF a.At > b.At THEN FALSE
  ELSE a.ID < b.ID

\* sort.Slice over the snapshot; IDs are distinct, so the order is total
RECURSIVE SortItems(_)
SortItems(S) ==
  IF S = {} THEN <<>>
  ELSE LET m == CHOOSE a \in S : \A b \in S \ {a} : lessAtID(a, b)
       IN <<m>> \o SortItems(S \ {m})

\* faulty variant: the ID tie-break is left out of the window test
afterCursorAtOnly(a, cur) == a.At > cur.At

\* (At, ID) > (cur.At, cur.ID)
afterCursor(a, cur) ==
  IF a.At > cur.At THEN TRUE
  ELSE IF a.At = cur.At /\ a.ID > cur.ID THEN TRUE
  ELSE FALSE

\* the snapshot loop: the Transactions the from filter lets through
Snapshot(txs, from) ==
  {txs[id] : id \in {i \in DOMAIN txs :
                       ~(from # "" /\ txs[i].FromAccountID # from)}}

\* the keyset window, 0-based as in the code: the index of the first item
\* strictly after the cursor, len(items) if there is none, 0 without cursor
WindowStart(items, cur) ==
  IF cur.At = ZeroTime THEN 0
  ELSE LET after == {i \in 1..Len(items) : afterCursor(items[i], cur)}
       IN IF after = {} THEN Len(items)
          ELSE (CHOOSE i \in after : \A j \in after : i <= j) - 1

ListError(msg) ==
  [status |-> StatusBadRequest, error |-> msg, items |-> <<>>, next |-> <<>>]

\* the checks listTransactions makes before it reads the store
listRefusal(fromQ, limitQ, curQ) ==
  LET from == TrimSpace(fromQ)
      dc == decodeCursor(curQ)
  IN IF parseLimit(limitQ).err THEN "invalid limit"
     ELSE IF dc.err # "" THEN dc.err
     ELSE IF dc.cur.FA # "" /\ dc.cur.FA # from
          THEN "cursor does not match query"
     ELSE ""

\* faulty variant: a next cursor is built whenever the page is not empty
listPageAlwaysNext(txs, fromQ, limitQ, curQ) ==
  LET from == TrimSpace(fromQ)
      limit == parseLimit(limitQ).n
      cur == decodeCursor(curQ).cur
      items == SortItems(Snapshot(txs, from))
      start == WindowStart(items, cur)
      end == IF start + limit > Len(items) THEN Len(items) ELSE start + limit
      page == SubSeq(items, start + 1, end)
  IN [status |-> StatusOK, error |-> "", items |-> page,
      next |-> IF Len(page) > 0
               THEN encodeCursor([At |-> page[Len(page)].At,
                                  ID |-> page[Len(page)].ID, FA |-> from])
               ELSE <<>>]

\* the page and the next cursor listTransactions computes from the store
listPage(txs, fromQ, limitQ, curQ) ==
  LET from == TrimSpace(fromQ)
      limit == parseLimit(limitQ).n
      cur == decodeCursor(curQ).cur
      items == SortItems(Snapshot(txs, from))
      start == WindowStart(items, cur)
      end == IF start + limit > Len(items) THEN Len(items) ELSE start + limit
      page == SubSeq(items, start + 1, end)
  IN [status |-> StatusOK, error |-> "", items |-> page,
      next |-> IF end < Len(items) /\ Len(page) > 0
               THEN encodeCursor([At |-> page[Len(page)].At,
                                  ID |-> page[Len(page)].ID, FA |-> from])
               ELSE <<>>]

listTransactions(txs, fromQ, limitQ, curQ) ==
  IF listRefusal(fromQ, limitQ, curQ) # ""
  THEN ListError(listRefusal(fromQ, limitQ, curQ))
  ELSE listPage(txs, fromQ, limitQ, curQ)

\* faulty variant: the ok test after the lookup is inverted
getTransactionInverted(txs, id) ==
  IF id = 0
  THEN [id |-> id, status |-> StatusBadRequest, body |-> ErrorBody("missing id")]
  ELSE IF id \in DOMAIN txs
  THEN [id |-> id, status |-> StatusNotFound,
        body |-> ErrorBody("this payment does not exist")]
  ELSE [id |-> id, status |-> StatusOK,
        body |-> MarshalTransaction(ZeroTransaction)]

\* getTransaction: missing id, unknown id, or the stored Transaction
getTransaction(txs, id) ==
  IF id = 0
  THEN [id |-> id, status |-> StatusBadRequest, body |-> ErrorBody("missing id")]
  ELSE IF id \notin DOMAIN txs
  THEN [id |-> id, status |-> StatusNotFound,
        body |-> ErrorBody("this payment does not exist")]
  ELSE [id |-> id, status |-> StatusOK, body |-> MarshalTransaction(txs[id])]

\* ------------------------------------------------------------------ state
VARIABLES
  Transactions,    \* conStore.Transactions: ID -> Transaction
  idemCache,       \* idempotency key -> idemRecord
  MuTransactions,  \* holder of conStore.MuTransactions (Free if none)
  regMu,           \* holder of lockRegistry.mu
  regM,            \* lockRegistry.m: key -> keyLock object
  klRefs,          \* keyLock.refs of every keyLock object
  klMu,            \* holder of keyLock.mu of every keyLock object
  pc, key, req,    \* per request: position, Idempotency-Key header, body
  kl,              \* per request: the keyLock the release closure captured
  t,               \* per request: the Transaction it built
  resp,            \* per request: the response written
  started,         \* number of requests received so far
  nextID,          \* source of fresh IDs
  now,             \* the wall clock
  swPc, swNow,     \* sweeper position and its sampled time
  tickPending,     \* a tick is buffered in ticker.C
  ctxDone,         \* the sweeper's context has been cancelled
  evicted,         \* history: keys whose entry a sweep has deleted
  origin           \* history: ID -> Idempotency-Key of the inserting request

\* the read handlers of the same server with the client paging through a
\* list, and the other programs of the repository, one record each
VARIABLES
  reader,          \* getTransaction / listTransactions and their client
  postapi,         \* the payments server (postapi)
  fintech,         \* the first transaction server (fintechapi)
  bank,            \* package bank and the main that deposits concurrently
  glob             \* the transaction server of the global-lock variant

\* everything outside the write path of the transaction server
otherVars == <<reader, postapi, fintech, bank, glob>>

\* reader: the last getTransaction (the id asked for and the answer), the
\* last listTransactions query (from, limit, cursor) and its answer (status,
\* error, items, next_cursor), the items of the pages followed from the
\* empty cursor, and whether these are such a chain of pages, none refused
getResp == reader.getResp
lsReq == reader.lsReq
lsResp == reader.lsResp
lsSeen == reader.lsSeen
lsWalk == reader.lsWalk

\* history: the store as it was when the first page of the chain was taken
lsBase == reader.lsBase

\* postapi: payments (ID -> Payment), idemCache (Idempotency-Key -> Payment),
\* per request its position, key, body, Payment built and response, the
\* source of fresh IDs, and as history ID -> key of the inserting request
payments == postapi.payments
payIdemCache == postapi.idemCache
payProc == postapi.proc
payNextID == postapi.nextID
payOrigin == postapi.origin

\* postapi, sessions: SessionStore.m (ID -> Session), per request of
\* startSession its position, body, decoded startReq and response, and as
\* history the number of CreateSession calls that returned without error
sessions == postapi.sessions
sessProc == postapi.sessProc
sessCreated == postapi.sessCreated

\* fintech: store.Transactions, store.idemCache (Idempotency-Key ->
\* Transaction), per request its position, key, body, Transaction and
\* response, the source of fresh IDs, and the history ID -> key
finTransactions == fintech.Transactions
finIdemCache == fintech.idemCache
finProc == fintech.proc
finNextID == fintech.nextID
finOrigin == fintech.origin

\* bank: bank.balance, the holder of bank.mu, per deposit goroutine its
\* position, amount and the balance it read, the WaitGroup counter, and
\* main's position, goroutines started and balances printed
balance == bank.balance
bankMu == bank.mu
dep == bank.dep
wg == bank.wg
mainProc == bank.main

\* the global-lock variant
gTransactions == glob.Transactions
gIdemCache == glob.idemCache
gMu == glob.mu
gProc == glob.proc
gStarted == glob.started
gNextID == glob.nextID
leader == glob.leader

vars == <<Transactions, idemCache, MuTransactions, regMu, regM, klRefs, klMu,
          pc, key, req, kl, t, resp, started, nextID, now, swPc, swNow, ctxDone,
          evicted, origin, tickPending, otherVars>>

storeVars == <<Transactions, idemCache>>
registryVars == <<regMu, regM, klRefs, klMu>>
sweeperVars == <<swPc, swNow, ctxDone, evicted, tickPending>>
idVars == <<nextID, origin>>
procVars == <<pc, key, req, kl, t, resp>>

\* the state of the write path and of the sweeper
coreVars == <<Transactions, idemCache, MuTransactions, regMu, regM, klRefs,
              klMu, pc, key, req, kl, t, resp, started, nextID, now, swPc,
              swNow, ctxDone, evicted, origin, tickPending>>

EmptyMap == [x \in {} |-> 0]

Put(m, k, v) == [x \in DOMAIN m \cup {k} |-> IF x = k THEN v ELSE m[x]]
Delete(m, ks) == [x \in DOMAIN m \ ks |-> m[x]]

NoGetResponse == [id |-> 0, status |-> 0, body |-> <<>>]
NoQuery == [from |-> "", limit |-> <<>>, cursor |-> <<>>]
NoListResponse == [status |-> 0, error |-> "", items |-> <<>>, next |-> <<>>]

ReaderInit ==
  reader = [getResp |-> NoGetResponse, lsReq |-> NoQuery,
            lsResp |-> NoListResponse, lsSeen |-> <<>>, lsWalk |-> FALSE,
            lsBase |-> EmptyMap]

\* the payments server: request bodies and the Payment type
PayCard == [Amount |-> 1499, Currency |-> "eur", Method |-> "Card"]
PayBank == [Amount |-> 500, Currency |-> "GBP", Method |-> "bank"]
PayNoAmount == [Amount |-> 0, Currency |-> "EUR", Method |-> "card"]
PayNoCurrency == [Amount |-> 500, Currency |-> "CHF", Method |-> "card"]
PayNoMethod == [Amount |-> 500, Currency |-> "EUR", Method |-> " "]
PayBodies == {PayCard, PayBank, PayNoAmount, PayNoCurrency, PayNoMethod}

ZeroPayment ==
  [ID |-> 0, Amount |-> 0, Currency |-> "", Method |-> "", Status |-> ""]

\* startReq and the answer of startSession before anything is written
ZeroStartReq == [UserID |-> "", MachineID |-> ""]

NoSessResponse ==
  [status |-> 0, error |-> "", code |-> "", details |-> EmptyMap,
   location |-> <<>>, body |-> <<>>]

PostapiInit ==
  postapi = [payments |-> EmptyMap, idemCache |-> EmptyMap,
             proc |-> [p \in Procs |->
                        [pc |-> "idle", key |-> NoKey, in |-> PayCard,
                         pay |-> ZeroPayment, resp |-> NoResponse]],
             nextID |-> 1, origin |-> EmptyMap,
             sessions |-> EmptyMap,
             sessProc |-> [p \in Procs |->
                            [pc |-> "idle", body |-> EmptyMap,
                             sreq |-> ZeroStartReq, resp |-> NoSessResponse]],
             sessCreated |-> 0]

FintechInit ==
  fintech = [Transactions |-> EmptyMap, idemCache |-> EmptyMap,
             proc |-> [p \in Procs |->
                        [pc |-> "idle", key |-> NoKey, req |-> P1,
                         t |-> ZeroTransaction, resp |-> NoResponse]],
             nextID |-> 1, origin |-> EmptyMap]

Depositors == 1..NumDepositors

BankInit ==
  bank = [balance |-> 0, mu |-> Free,
          dep |-> [i \in Depositors |->
                    [pc |-> "unborn", amount |-> 0, read |-> 0]],
          wg |-> 0,
          main |-> [pc |-> "start", started |-> 0, initial |-> 0, final |-> 0]]

\* the global-lock variant: its store, cache and mutex, per request its
\* position, key, body, Transaction and response, requests received, the
\* source of fresh IDs; and which of the two variants is run freely when the
\* two are run side by side, the other one following it
GlobStart ==
  [leader |-> "none", Transactions |-> EmptyMap, idemCache |-> EmptyMap,
   mu |-> Free,
   proc |-> [p \in Procs |->
              [pc |-> "idle", key |-> NoKey, req |-> P1,
               t |-> ZeroTransaction, resp |-> NoResponse]],
   started |-> 0, nextID |-> 1]

GlobInit == glob = GlobStart

OtherInit ==
  ReaderInit /\ PostapiInit /\ FintechInit /\ BankInit /\ GlobInit

Init ==
  /\ Transactions = EmptyMap
  /\ idemCache = EmptyMap
  /\ MuTransactions = Free
  /\ regMu = Free
  /\ regM = EmptyMap
  /\ klRefs = [o \in KLObjs |-> 0]
  /\ klMu = [o \in KLObjs |-> Free]
  /\ pc = [p \in Procs |-> "idle"]
  /\ key = [p \in Procs |-> NoKey]
  /\ req = [p \in Procs |-> P1]
  /\ kl = [p \in Procs |-> NoKL]
  /\ t = [p \in Procs |-> ZeroTransaction]
  /\ resp = [p \in Procs |-> NoResponse]
  /\ started = 0
  /\ nextID = 1
  /\ now = 0
  /\ swPc = "select"
  /\ swNow = 0
  /\ ctxDone = FALSE
  /\ tickPending = FALSE
  /\ evicted = {}
  /\ origin = EmptyMap
  /\ OtherInit

\* ------------------------------------------------------------- helpers
\* newID: IDs are taken as collision-free
newID == nextID

\* faulty variant: every Transaction is built with the same ID
NewTransactionFixedID(in, id, at) ==
  [ID |-> 1, FromAccountID |-> in.FromAccountID,
   ToAccountID |-> in.ToAccountID, Amount |-> in.Amount,
   At |-> at, Status |-> StatusPending]

NewTransaction(in, id, at) ==
  [ID |-> id, FromAccountID |-> in.FromAccountID,
   ToAccountID |-> in.ToAccountID, Amount |-> in.Amount,
   At |-> at, Status |-> StatusPending]

\* a keyLock object nobody references: not in the registry, not captured
FreshKL ==
  CHOOSE o \in KLObjs :
    /\ \A k \in DOMAIN regM : regM[k] # o
    /\ \A q \in Procs : kl[q] # o
    /\ \A o2 \in KLObjs :
         ((\A k \in DOMAIN regM : regM[k] # o2) /\ (\A q \in Procs : kl[q] # o2))
           => o <= o2

\* ----------------------------------------------------- createTransaction
\* header read, bindJSON, validation, fingerprint; the keyless path builds
\* its Transaction before taking any lock
Start(p, k, in) ==
  /\ pc[p] \in {"idle", "done"}
  /\ \A q \in Procs : q < p => pc[q] \notin {"idle", "done"}
  /\ started < MaxRequests
  /\ started' = started + 1
  /\ key' = [key EXCEPT ![p] = k]
  /\ req' = [req EXCEPT ![p] = in]
  /\ IF validateTransactionRequest(in) # <<>>
     THEN /\ resp' = [resp EXCEPT ![p] =
                 [status |-> StatusBadRequest, location |-> <<>>,
                  body |-> ErrorBody(validateTransactionRequest(in))]]
          /\ pc' = [pc EXCEPT ![p] = "done"]
          /\ UNCHANGED <<t, nextID>>
     ELSE IF HasKey(k)
     THEN /\ pc' = [pc EXCEPT ![p] = "acq_lock"]
          /\ resp' = [resp EXCEPT ![p] = NoResponse]
          /\ UNCHANGED <<t, nextID>>
     ELSE /\ t' = [t EXCEPT ![p] = NewTransaction(in, newID, now)]
          /\ nextID' = nextID + 1
          /\ pc' = [pc EXCEPT ![p] = "nk_lock"]
          /\ resp' = [resp EXCEPT ![p] = NoResponse]
  /\ UNCHANGED <<otherVars, storeVars, MuTransactions, registryVars, kl, now, sweeperVars,
                 origin>>

\* lockRegistry.acquire: r.mu.Lock()
AcquireLock(p) ==
  /\ pc[p] = "acq_lock"
  /\ regMu = Free
  /\ regMu' = p
  /\ pc' = [pc EXCEPT ![p] = "acq_get"]
  /\ UNCHANGED <<otherVars, storeVars, MuTransactions, regM, klRefs, klMu,
                 key, req, kl, t, resp, idVars, started, now, sweeperVars>>

\* faulty variant: every key is looked up under one and the same map slot
AcquireGetOneSlot(p) ==
  /\ pc[p] = "acq_get"
  /\ IF NoKey \in DOMAIN regM
     THEN /\ kl' = [kl EXCEPT ![p] = regM[NoKey]]
          /\ UNCHANGED <<regM, klRefs, klMu>>
     ELSE /\ kl' = [kl EXCEPT ![p] = FreshKL]
          /\ regM' = Put(regM, NoKey, FreshKL)
          /\ klRefs' = [klRefs EXCEPT ![FreshKL] = 0]
          /\ klMu' = [klMu EXCEPT ![FreshKL] = Free]
  /\ pc' = [pc EXCEPT ![p] = "acq_inc"]
  /\ UNCHANGED <<otherVars, storeVars, MuTransactions, regMu,
                 key, req, t, resp, idVars, started, now, sweeperVars>>

\* kl, ok := r.m[key]; if !ok { kl = &keyLock{}; r.m[key] = kl }
AcquireGet(p) ==
  /\ pc[p] = "acq_get"
  /\ IF key[p] \in DOMAIN regM
     THEN /\ kl' = [kl EXCEPT ![p] = regM[key[p]]]
          /\ UNCHANGED <<regM, klRefs, klMu>>
     ELSE /\ kl' = [kl EXCEPT ![p] = FreshKL]
          /\ regM' = Put(regM, key[p], FreshKL)
          /\ klRefs' = [klRefs EXCEPT ![FreshKL] = 0]
          /\ klMu' = [klMu EXCEPT ![FreshKL] = Free]
  /\ pc' = [pc EXCEPT ![p] = "acq_inc"]
  /\ UNCHANGED <<otherVars, storeVars, MuTransactions, regMu,
                 key, req, t, resp, idVars, started, now, sweeperVars>>

\* faulty variant: acquire forgets to count the reference
AcquireIncNoCount(p) ==
  /\ pc[p] = "acq_inc"
  /\ regMu' = Free
  /\ pc' = [pc EXCEPT ![p] = "kl_lock"]
  /\ UNCHANGED <<otherVars, storeVars, MuTransactions, regM, klRefs, klMu,
                 key, req, kl, t, resp, idVars, started, now, sweeperVars>>

\* faulty variant: acquire keeps r.mu locked while it goes on to kl.mu.Lock()
AcquireIncHoldRegistry(p) ==
  /\ pc[p] = "acq_inc"
  /\ klRefs' = [klRefs EXCEPT ![kl[p]] = @ + 1]
  /\ pc' = [pc EXCEPT ![p] = "kl_lock"]
  /\ UNCHANGED <<otherVars, storeVars, MuTransactions, regMu, regM, klMu,
                 key, req, kl, t, resp, idVars, started, now, sweeperVars>>

\* kl.refs++; r.mu.Unlock()
AcquireInc(p) ==
  /\ pc[p] = "acq_inc"
  /\ klRefs' = [klRefs EXCEPT ![kl[p]] = @ + 1]
  /\ regMu' = Free
  /\ pc' = [pc EXCEPT ![p] = "kl_lock"]
  /\ UNCHANGED <<otherVars, storeVars, MuTransactions, regM, klMu,
                 key, req, kl, t, resp, idVars, started, now, sweeperVars>>

\* kl.mu.Lock(): acquire returns the release closure
KeyLockLock(p) ==
  /\ pc[p] = "kl_lock"
  /\ klMu[kl[p]] = Free
  /\ klMu' = [klMu EXCEPT ![kl[p]] = p]
  /\ pc' = [pc EXCEPT ![p] = "tx_lock"]
  /\ UNCHANGED <<otherVars, storeVars, MuTransactions, regMu, regM, klRefs,
                 key, req, kl, t, resp, idVars, started, now, sweeperVars>>

\* store.MuTransactions.Lock() on the keyed path
TxLock(p) ==
  /\ pc[p] = "tx_lock"
  /\ MuTransactions = Free
  /\ MuTransactions' = p
  /\ pc' = [pc EXCEPT ![p] = "check"]
  /\ UNCHANGED <<otherVars, storeVars, registryVars,
                 key, req, kl, t, resp, idVars, started, now, sweeperVars>>

\* the response of the conflict branch
ConflictResponse(rec) ==
  [status |-> StatusConflict, location |-> <<>>,
   body |-> ErrorBody("idempotency key reuse with different payload")]

\* faulty variant: the replay answers 200 instead of the cached status code
ReplayResponseOK(rec) ==
  [status |-> 200, location |-> rec.Location, body |-> rec.Body]

\* faulty variant: the replay forgets the Location header
ReplayResponseNoLocation(rec) ==
  [status |-> rec.StatusCode, location |-> <<>>, body |-> rec.Body]

\* the response of the replay branch
ReplayResponse(rec) ==
  [status |-> rec.StatusCode, location |-> rec.Location, body |-> rec.Body]

\* faulty variant: the conflicting request takes the key over (last writer wins)
ConflictCacheOverwrite(cache, k, fp) ==
  [cache EXCEPT ![k] = [@ EXCEPT !.Hash = fp]]

\* what the conflict branch leaves in the cache
ConflictCache(cache, k, fp) == cache

\* faulty variant: the lookup never finds the entry
CacheMiss(cache, k) == FALSE

\* the ok of: rec, ok := store.idemCache[key]
CacheHit(cache, k) == k \in DOMAIN cache

\* cache lookup: conflict, replay, or (miss) build and insert the Transaction
Check(p) ==
  /\ pc[p] = "check"
  /\ IF CacheHit(idemCache, key[p])
     THEN /\ IF idemCache[key[p]].Hash # fingerprint(req[p])
             THEN /\ resp' = [resp EXCEPT ![p] =
                               ConflictResponse(idemCache[key[p]])]
                  /\ idemCache' =
                       ConflictCache(idemCache, key[p], fingerprint(req[p]))
             ELSE /\ resp' = [resp EXCEPT ![p] =
                               ReplayResponse(idemCache[key[p]])]
                  /\ UNCHANGED idemCache
          /\ pc' = [pc EXCEPT ![p] = "tx_unlock"]
          /\ UNCHANGED <<Transactions, t, idVars>>
     ELSE LET tr == NewTransaction(req[p], newID, now) IN
          /\ t' = [t EXCEPT ![p] = tr]
          /\ nextID' = nextID + 1
          /\ origin' = Put(origin, tr.ID, key[p])
          /\ Transactions' = Put(Transactions, tr.ID, tr)
          /\ pc' = [pc EXCEPT ![p] = "store"]
          /\ UNCHANGED <<idemCache, resp>>
  /\ UNCHANGED <<otherVars, MuTransactions, registryVars, key, req, kl, started, now,
                 sweeperVars>>

\* faulty variant: the entry caches the Transaction without its generated ID
NewIdemRecordNoID(fp, tr, at) ==
  [Hash |-> fp, Tr |-> [tr EXCEPT !.ID = 0], StatusCode |-> StatusAccepted,
   CreatedAt |-> at, Body |-> MarshalTransaction(tr),
   Location |-> LocationOf(tr.ID)]

\* the idemRecord of a fresh create
NewIdemRecord(fp, tr, at) ==
  [Hash |-> fp, Tr |-> tr, StatusCode |-> StatusAccepted, CreatedAt |-> at,
   Body |-> MarshalTransaction(tr), Location |-> LocationOf(tr.ID)]

\* body, loc, store.idemCache[key] = idemRecord{...}, response
Store(p) ==
  /\ pc[p] = "store"
  /\ idemCache' = Put(idemCache, key[p],
                      NewIdemRecord(fingerprint(req[p]), t[p], now))
  /\ resp' = [resp EXCEPT ![p] =
               [status |-> StatusAccepted, location |-> LocationOf(t[p].ID),
                body |-> MarshalTransaction(t[p])]]
  /\ pc' = [pc EXCEPT ![p] = "tx_unlock"]
  /\ UNCHANGED <<otherVars, Transactions, MuTransactions, registryVars,
                 key, req, kl, t, idVars, started, now, sweeperVars>>

\* faulty variant: the conflict branch returns without running the release
\* handle of its key lock
TxUnlockLeakOnConflict(p) ==
  /\ pc[p] = "tx_unlock"
  /\ MuTransactions' = Free
  /\ pc' = [pc EXCEPT ![p] =
             IF resp[p].status = StatusConflict THEN "done" ELSE "kl_unlock"]
  /\ UNCHANGED <<otherVars, storeVars, registryVars,
                 key, req, kl, t, resp, idVars, started, now, sweeperVars>>

\* deferred store.MuTransactions.Unlock()
TxUnlock(p) ==
  /\ pc[p] = "tx_unlock"
  /\ MuTransactions' = Free
  /\ pc' = [pc EXCEPT ![p] = "kl_unlock"]
  /\ UNCHANGED <<otherVars, storeVars, registryVars,
                 key, req, kl, t, resp, idVars, started, now, sweeperVars>>

\* release closure: kl.mu.Unlock()
KeyLockUnlock(p) ==
  /\ pc[p] = "kl_unlock"
  /\ klMu' = [klMu EXCEPT ![kl[p]] = Free]
  /\ pc' = [pc EXCEPT ![p] = "rel_lock"]
  /\ UNCHANGED <<otherVars, storeVars, MuTransactions, regMu, regM, klRefs,
                 key, req, kl, t, resp, idVars, started, now, sweeperVars>>

\* release closure: r.mu.Lock()
ReleaseLock(p) ==
  /\ pc[p] = "rel_lock"
  /\ regMu = Free
  /\ regMu' = p
  /\ pc' = [pc EXCEPT ![p] = "rel_dec"]
  /\ UNCHANGED <<otherVars, storeVars, MuTransactions, regM, klRefs, klMu,
                 key, req, kl, t, resp, idVars, started, now, sweeperVars>>

\* release closure: kl.refs--
ReleaseDec(p) ==
  /\ pc[p] = "rel_dec"
  /\ klRefs' = [klRefs EXCEPT ![kl[p]] = @ - 1]
  /\ pc' = [pc EXCEPT ![p] = "rel_del"]
  /\ UNCHANGED <<otherVars, storeVars, MuTransactions, regMu, regM, klMu,
                 key, req, kl, t, resp, idVars, started, now, sweeperVars>>

\* faulty variant: the release closure deletes the entry whatever the count
ShouldDeleteAlways(refs) == TRUE

\* faulty variant: the release closure never deletes the entry
ShouldDeleteNever(refs) == FALSE

\* the condition under which the release closure deletes the entry
ShouldDelete(refs) == refs = 0

\* release closure: if kl.refs == 0 { delete(r.m, key) }; r.mu.Unlock(); the
\* handler has returned
ReleaseDel(p) ==
  /\ pc[p] = "rel_del"
  /\ regM' = IF ShouldDelete(klRefs[kl[p]]) THEN Delete(regM, {key[p]})
             ELSE regM
  /\ regMu' = Free
  /\ kl' = [kl EXCEPT ![p] = NoKL]
  /\ t' = [t EXCEPT ![p] = ZeroTransaction]
  /\ pc' = [pc EXCEPT ![p] = "done"]
  /\ UNCHANGED <<otherVars, storeVars, MuTransactions, klRefs, klMu,
                 key, req, resp, idVars, started, now, sweeperVars>>

\* faulty variant: the keyless path inserts without taking MuTransactions
NoKeyLockSkipped(p) ==
  /\ pc[p] = "nk_lock"
  /\ pc' = [pc EXCEPT ![p] = "nk_put"]
  /\ UNCHANGED <<otherVars, storeVars, MuTransactions, registryVars,
                 key, req, kl, t, resp, idVars, started, now, sweeperVars>>

\* keyless path: store.MuTransactions.Lock()
NoKeyLock(p) ==
  /\ pc[p] = "nk_lock"
  /\ MuTransactions = Free
  /\ MuTransactions' = p
  /\ pc' = [pc EXCEPT ![p] = "nk_put"]
  /\ UNCHANGED <<otherVars, storeVars, registryVars,
                 key, req, kl, t, resp, idVars, started, now, sweeperVars>>

\* faulty variant: the keyless path calls storeByKey with its empty key
NoKeyCacheStore(cache, k, tr) ==
  Put(cache, k, [Hash |-> <<>>, Tr |-> tr, StatusCode |-> StatusAccepted,
                 CreatedAt |-> tr.At, Body |-> MarshalTransaction(tr),
                 Location |-> LocationOf(tr.ID)])

\* what the keyless path leaves in the cache
NoKeyCache(cache, k, tr) == cache

\* keyless path: store.Transactions[t.ID] = t; store.MuTransactions.Unlock();
\* Location header, writeJSON
NoKeyPut(p) ==
  /\ pc[p] = "nk_put"
  /\ Transactions' = Put(Transactions, t[p].ID, t[p])
  /\ idemCache' = NoKeyCache(idemCache, key[p], t[p])
  /\ MuTransactions' = Free
  /\ resp' = [resp EXCEPT ![p] =
               [status |-> StatusAccepted, location |-> LocationOf(t[p].ID),
                body |-> MarshalTransaction(t[p])]]
  /\ t' = [t EXCEPT ![p] = ZeroTransaction]
  /\ pc' = [pc EXCEPT ![p] = "done"]
  /\ origin' = Put(origin, t[p].ID, key[p])
  /\ UNCHANGED <<otherVars, registryVars, key, req, kl, nextID, started, now, sweeperVars>>

\* ------------------------------------------------------------- sweeper
\* the idempotency entries a pass at time at deletes
\* faulty variant: an entry whose age equals the TTL is purged as well
ExpiredAtTTL(cache, at) ==
  {k \in DOMAIN cache : at - cache[k].CreatedAt >= idemTTL}

Expired(cache, at) ==
  {k \in DOMAIN cache : at - cache[k].CreatedAt > idemTTL}

\* select finds a tick buffered: case <-ticker.C: now := time.Now(); when
\* ctx.Done() is ready as well, select takes either case
SweeperTick ==
  /\ swPc = "select"
  /\ tickPending
  /\ tickPending' = FALSE
  /\ swNow' = now
  /\ swPc' = "lock"
  /\ UNCHANGED <<otherVars, storeVars, MuTransactions, registryVars, procVars,
                 idVars, started, now, ctxDone, evicted>>

\* faulty variant: the loop also tests the context inside the pass and
\* returns from the scan without unlocking
SweeperStopMidPass ==
  /\ swPc \in {"select", "scan"}
  /\ ctxDone
  /\ swPc' = "stopped"
  /\ UNCHANGED <<otherVars, storeVars, MuTransactions, registryVars, procVars,
                 idVars, started, now, swNow, ctxDone, evicted, tickPending>>

\* select finds the context cancelled: case <-ctx.Done(): return (the
\* deferred ticker.Stop() runs)
SweeperStop ==
  /\ swPc = "select"
  /\ ctxDone
  /\ swPc' = "stopped"
  /\ UNCHANGED <<otherVars, storeVars, MuTransactions, registryVars, procVars,
                 idVars, started, now, swNow, ctxDone, evicted, tickPending>>

\* select finds neither case ready and blocks
SweeperPark ==
  /\ swPc = "select"
  /\ ~tickPending /\ ~ctxDone
  /\ swPc' = "parked"
  /\ UNCHANGED <<otherVars, storeVars, MuTransactions, registryVars, procVars,
                 idVars, started, now, swNow, ctxDone, evicted, tickPending>>

\* the ticker fires: a sweeper blocked in select is woken with the tick case,
\* otherwise the tick is buffered (ticker.C holds one tick, further ones drop)
TickerFire ==
  /\ swPc # "stopped"
  /\ IF swPc = "parked"
     THEN /\ swPc' = "lock"
          /\ swNow' = now
          /\ UNCHANGED tickPending
     ELSE /\ ~tickPending
          /\ tickPending' = TRUE
          /\ UNCHANGED <<swPc, swNow>>
  /\ UNCHANGED <<otherVars, storeVars, MuTransactions, registryVars, procVars,
                 idVars, started, now, ctxDone, evicted>>

\* faulty variant: the pass starts without waiting for MuTransactions
SweeperLockNoWait ==
  /\ swPc = "lock"
  /\ MuTransactions' = SweeperId
  /\ swPc' = "scan"
  /\ UNCHANGED <<otherVars, storeVars, registryVars, procVars,
                 idVars, started, now, swNow, ctxDone, evicted, tickPending>>

\* s.MuTransactions.Lock()
SweeperLock ==
  /\ swPc = "lock"
  /\ MuTransactions = Free
  /\ MuTransactions' = SweeperId
  /\ swPc' = "scan"
  /\ UNCHANGED <<otherVars, storeVars, registryVars, procVars,
                 idVars, started, now, swNow, ctxDone, evicted, tickPending>>

\* faulty variant: the pass also deletes the Transaction of each purged entry
SweeperScanCascade ==
  /\ swPc = "scan"
  /\ idemCache' = Delete(idemCache, Expired(idemCache, swNow))
  /\ Transactions' =
       Delete(Transactions,
              {id \in DOMAIN Transactions :
                 origin[id] \in Expired(idemCache, swNow)})
  /\ evicted' = evicted \cup Expired(idemCache, swNow)
  /\ swPc' = "unlock"
  /\ UNCHANGED <<otherVars, MuTransactions, registryVars, procVars,
                 idVars, started, now, swNow, ctxDone, tickPending>>

\* the range loop deleting every expired entry
SweeperScan ==
  /\ swPc = "scan"
  /\ idemCache' = Delete(idemCache, Expired(idemCache, swNow))
  /\ evicted' = evicted \cup Expired(idemCache, swNow)
  /\ swPc' = "unlock"
  /\ UNCHANGED <<otherVars, Transactions, MuTransactions, registryVars, procVars,
                 idVars, started, now, swNow, ctxDone, tickPending>>

\* s.MuTransactions.Unlock(); the pass is over and its now goes out of scope
SweeperUnlock ==
  /\ swPc = "unlock"
  /\ MuTransactions' = Free
  /\ swNow' = 0
  /\ swPc' = "select"
  /\ UNCHANGED <<otherVars, storeVars, registryVars, procVars,
                 idVars, started, now, ctxDone, evicted, tickPending>>

\* the cancel function returned by setupAndRouting: a sweeper blocked in
\* select is woken with the ctx.Done() case and returns
Cancel ==
  /\ ~ctxDone
  /\ ctxDone' = TRUE
  /\ swPc' = IF swPc = "parked" THEN "stopped" ELSE swPc
  /\ UNCHANGED <<otherVars, storeVars, MuTransactions, registryVars, procVars,
                 idVars, started, now, swNow, evicted, tickPending>>

\* time passes
Tick ==
  /\ now < MaxTime
  /\ now' = now + 1
  /\ UNCHANGED <<otherVars, storeVars, MuTransactions, registryVars, procVars,
                 idVars, started, sweeperVars>>

\* ------------------------------------------------------- read handlers
\* path values of GET /transactions/{id}: blank (0), stored or unknown IDs
GetIDs == 0..(MaxRequests + 1)

\* faulty variant: the map is read without MuTransactions.RLock()
GetNoRLock(id) ==
  /\ reader' = [reader EXCEPT !.getResp = getTransaction(Transactions, id)]
  /\ UNCHANGED <<coreVars, postapi, fintech, bank, glob>>

\* getTransaction: the map is read under MuTransactions.RLock(), which waits
\* for a writer only; a blank id is refused before the lock
Get(id) ==
  /\ id = 0 \/ MuTransactions = Free
  /\ reader' = [reader EXCEPT !.getResp = getTransaction(Transactions, id)]
  /\ UNCHANGED <<coreVars, postapi, fintech, bank, glob>>

\* query values of GET /transactions
FromQueries == {"", "A1", "A1 ", "A3"}
LimitQueries ==
  {<<>>, <<" ">>, <<"x">>, <<" ", "2">>, <<"0">>, <<"-", "1">>, <<"1">>,
   <<"2">>, <<"+", "2">>, <<"1", "0", "0">>, <<"1", "0", "1">>}
BadCursors == {NotBase64, NotJSON, ZeroFieldsCursor}

\* one call of listTransactions: refused before the lock, or answered from
\* the snapshot taken under MuTransactions.RLock(); seen and walk are what
\* the client has of its chain of pages after the call
ListCall(fromQ, limitQ, curQ, seen, walk) ==
  LET r == listTransactions(Transactions, fromQ, limitQ, curQ) IN
  /\ listRefusal(fromQ, limitQ, curQ) # "" \/ MuTransactions = Free
  /\ reader' = [reader EXCEPT
                  !.lsReq = [from |-> fromQ, limit |-> limitQ, cursor |-> curQ],
                  !.lsResp = r,
                  !.lsSeen = IF walk THEN seen \o r.items ELSE <<>>,
                  !.lsWalk = walk /\ r.status = StatusOK,
                  !.lsBase = IF ~walk THEN EmptyMap
                             ELSE IF curQ = <<>> THEN Transactions ELSE @]
  /\ UNCHANGED <<coreVars, postapi, fintech, bank, glob>>

\* a client asks for the first page
ListFirst(fromQ, limitQ) == ListCall(fromQ, limitQ, <<>>, <<>>, TRUE)

\* the client follows next_cursor with the same filter and limit
ListNext ==
  /\ lsWalk /\ lsResp.next # <<>>
  /\ ListCall(lsReq.from, lsReq.limit, lsResp.next, lsSeen, TRUE)

\* a client presents the cursor it was last given, or a token of its own
\* making, with any filter and limit
ListWith(fromQ, limitQ, curQ) ==
  /\ curQ # <<>>
  /\ ListCall(fromQ, limitQ, curQ, <<>>, FALSE)

GetStep == \E id \in GetIDs : Get(id)

\* paging: every filter, the limits that cut the store into pages
PageLimits == {<<>>, <<"1">>, <<"2">>}

ListStep ==
  \/ \E fromQ \in FromQueries, limitQ \in PageLimits :
       ListFirst(fromQ, limitQ)
  \/ ListNext
  \/ \E fromQ \in FromQueries, curQ \in BadCursors \cup {lsResp.next} :
       ListWith(fromQ, <<"1">>, curQ)

\* limits: every limit value, with and without filter
LimitStep ==
  \/ \E fromQ \in {"", "A1"}, limitQ \in LimitQueries :
       ListFirst(fromQ, limitQ)
  \/ ListNext
  \/ \E limitQ \in LimitQueries : ListWith("", limitQ, lsResp.next)

\* the stores listing is checked over: any Transactions with IDs in
\* 1..MaxListed (a random ID is ordered either way against an older one),
\* created without key at one of two readings of the clock
ListTimes == {0, 1}

ListedTransaction(id, from, at) ==
  [ID |-> id, FromAccountID |-> from,
   ToAccountID |-> IF from = "A1" THEN "A2" ELSE "A1", Amount |-> 10,
   At |-> at, Status |-> StatusPending]

ListInit ==
  /\ \E D \in SUBSET (1..MaxListed) :
       \E from \in [D -> {"A1", "A2"}], at \in [D -> ListTimes] :
         /\ Transactions = [id \in D |-> ListedTransaction(id, from[id], at[id])]
         /\ origin = [id \in D |-> NoKey]
  /\ idemCache = EmptyMap
  /\ MuTransactions = Free
  /\ regMu = Free
  /\ regM = EmptyMap
  /\ klRefs = [o \in KLObjs |-> 0]
  /\ klMu = [o \in KLObjs |-> Free]
  /\ pc = [p \in Procs |-> "idle"]
  /\ key = [p \in Procs |-> NoKey]
  /\ req = [p \in Procs |-> P1]
  /\ kl = [p \in Procs |-> NoKL]
  /\ t = [p \in Procs |-> ZeroTransaction]
  /\ resp = [p \in Procs |-> NoResponse]
  /\ started = 0
  /\ nextID = MaxListed + 1
  /\ now = MaxTime
  /\ swPc = "select"
  /\ swNow = 0
  /\ ctxDone = FALSE
  /\ tickPending = FALSE
  /\ evicted = {}
  /\ OtherInit

\* the stores listing is checked over while requests insert: Transactions
\* of earlier requests with IDs on both sides of the IDs the inserts will
\* draw, the clock at the earlier time
ListedAroundIDs ==
  {1} \cup ((MaxRequests + 1)..(MaxRequests + MaxListed - 1))

ListInsertInit ==
  /\ \E D \in SUBSET ListedAroundIDs :
       \E at \in [D -> ListTimes] :
         /\ Transactions = [id \in D |-> ListedTransaction(id, "A1", at[id])]
         /\ origin = [id \in D |-> NoKey]
  /\ idemCache = EmptyMap
  /\ MuTransactions = Free
  /\ regMu = Free
  /\ regM = EmptyMap
  /\ klRefs = [o \in KLObjs |-> 0]
  /\ klMu = [o \in KLObjs |-> Free]
  /\ pc = [p \in Procs |-> "idle"]
  /\ key = [p \in Procs |-> NoKey]
  /\ req = [p \in Procs |-> P1]
  /\ kl = [p \in Procs |-> NoKL]
  /\ t = [p \in Procs |-> ZeroTransaction]
  /\ resp = [p \in Procs |-> NoResponse]
  /\ started = 1
  /\ nextID = 1 + 1
  /\ now = 0
  /\ swPc = "select"
  /\ swNow = 0
  /\ ctxDone = FALSE
  /\ tickPending = FALSE
  /\ evicted = {}
  /\ OtherInit

\* keyless creates of one client, and the clock
InsertStep ==
  \/ \E p \in 1..SweepProcs, in \in {P1, PFromA3} : Start(p, NoKey, in)
  \/ \E p \in 1..SweepProcs : NoKeyLock(p)
  \/ \E p \in 1..SweepProcs : NoKeyPut(p)
  \/ Tick

\* a client walking the pages
WalkStep ==
  \/ \E fromQ \in {"", "A1"}, limitQ \in {<<"1">>, <<"2">>} :
       ListFirst(fromQ, limitQ)
  \/ ListNext

\* ------------------------------------------------ postapi: createPayment
\* strings.ToUpper and strings.ToLower on the values requests carry
ToUpper(s) == CASE s = "eur" -> "EUR" [] s = "Card" -> "CARD"
                [] s = "card" -> "CARD" [] s = "bank" -> "BANK" [] OTHER -> s
ToLower(s) == CASE s = "EUR" -> "eur" [] s = "GBP" -> "gbp"
                [] s = "CHF" -> "chf" [] s = "Card" -> "card" [] OTHER -> s

validateCurrency(c) == ToUpper(TrimSpace(c)) \in {"EUR", "USD", "GBP"}

MarshalPayment(pm) == <<pm.ID, pm.Amount, pm.Currency, pm.Method, pm.Status>>

PaymentLocation(id) == <<"/payments/", id>>

PaymentCreated(pm) ==
  [status |-> StatusCreated, location |-> PaymentLocation(pm.ID),
   body |-> MarshalPayment(pm)]

PaymentRefused(msg) ==
  [status |-> StatusBadRequest, location |-> <<>>, body |-> ErrorBody(msg)]

\* the checks on the decoded body, in the order of the code; "" if it passes
paymentRefusal(in) ==
  IF in.Amount <= 0 THEN "amount must be positive"
  ELSE IF ~validateCurrency(in.Currency) THEN "this currency is not allowed"
  ELSE IF TrimSpace(in.Method) = "" THEN "this payment method is ot allowed"
  ELSE ""

\* the request arrives: the Idempotency-Key header is read, a request
\* without key is refused
PayStart(p, k, in) ==
  /\ payProc[p].pc = "idle"
  /\ \A q \in Procs : q < p => payProc[q].pc # "idle"
  /\ postapi' = [postapi EXCEPT !.proc[p] =
       IF k = NoKey
       THEN [@ EXCEPT !.pc = "done", !.key = k, !.in = in,
                      !.resp = PaymentRefused("missing idempotency key")]
       ELSE [@ EXCEPT !.pc = "load", !.key = k, !.in = in]]
  /\ UNCHANGED <<coreVars, reader, fintech, bank, glob>>

\* loadByKey (the map read under muIdem.RLock()): a hit is answered with the
\* cached Payment; after a miss the body is decoded and checked
PayLoadByKey(p) ==
  /\ payProc[p].pc = "load"
  /\ postapi' = [postapi EXCEPT !.proc[p] =
       IF payProc[p].key \in DOMAIN payIdemCache
       THEN [@ EXCEPT !.pc = "done",
                      !.resp = PaymentCreated(payIdemCache[payProc[p].key])]
       ELSE IF paymentRefusal(payProc[p].in) # ""
       THEN [@ EXCEPT !.pc = "done",
                      !.resp = PaymentRefused(paymentRefusal(payProc[p].in))]
       ELSE [@ EXCEPT !.pc = "process"]]
  /\ UNCHANGED <<coreVars, reader, fintech, bank, glob>>

\* processPayment: a Payment with a new ID is put into payments (under
\* muPayments.Lock())
PayProcess(p) ==
  /\ payProc[p].pc = "process"
  /\ LET pm == [ID |-> payNextID, Amount |-> payProc[p].in.Amount,
                Currency |-> ToUpper(payProc[p].in.Currency),
                Method |-> ToLower(payProc[p].in.Method),
                Status |-> "processed"]
     IN postapi' = [postapi EXCEPT
          !.payments = Put(payments, pm.ID, pm),
          !.origin = Put(payOrigin, pm.ID, payProc[p].key),
          !.nextID = payNextID + 1,
          !.proc[p] = [@ EXCEPT !.pc = "store", !.pay = pm]]
  /\ UNCHANGED <<coreVars, reader, fintech, bank, glob>>

\* storeByKey (the map written under muIdem.Lock()), then the response
PayStoreByKey(p) ==
  /\ payProc[p].pc = "store"
  /\ postapi' = [postapi EXCEPT
       !.idemCache = Put(payIdemCache, payProc[p].key, payProc[p].pay),
       !.proc[p] = [@ EXCEPT !.pc = "done",
                             !.resp = PaymentCreated(payProc[p].pay)]]
  /\ UNCHANGED <<coreVars, reader, fintech, bank, glob>>

PostapiStep ==
  \/ \E p \in Procs, k \in Keys \cup {NoKey}, in \in PayBodies :
       PayStart(p, k, in)
  \/ \E p \in Procs : PayLoadByKey(p)
  \/ \E p \in Procs : PayProcess(p)
  \/ \E p \in Procs : PayStoreByKey(p)

\* ------------------------------------------------ postapi: startSession
\* request bodies: JSON objects as maps from member name to string
SessOK == [userID |-> "u_1", machineID |-> "m_1"]
SessOK2 == [userID |-> "u_2", machineID |-> "m_1"]
SessExtra == [userID |-> "u_1", machineID |-> "m_1", extra |-> "true"]
SessEmpty == EmptyMap
SessEmptyUser == [userID |-> "", machineID |-> "m_1"]
SessBlankMachine == [userID |-> "u_1", machineID |-> " "]
SessBodies ==
  {SessOK, SessOK2, SessExtra, SessEmpty, SessEmptyUser, SessBlankMachine}

\* values time.Now() may return: calls can see the same instant
SessTimes == {1, 2, 3}

\* decodeStrictJSON into a startReq: an unknown member is an error, a member
\* that is absent leaves the zero value
decodeStrictJSON(body) ==
  IF DOMAIN body \subseteq {"userID", "machineID"}
  THEN [err |-> FALSE,
        sreq |-> [UserID |-> IF "userID" \in DOMAIN body
                             THEN body["userID"] ELSE "",
                  MachineID |-> IF "machineID" \in DOMAIN body
                                THEN body["machineID"] ELSE ""]]
  ELSE [err |-> TRUE, sreq |-> ZeroStartReq]

\* faulty variant: machineID is not looked at
sessionMissingUserOnly(sreq) ==
  [f \in (IF TrimSpace(sreq.UserID) = "" THEN {"userID"} ELSE {})
     |-> "required"]

\* the map "missing" of startSession
sessionMissing(sreq) ==
  [f \in (IF TrimSpace(sreq.UserID) = "" THEN {"userID"} ELSE {})
         \cup (IF TrimSpace(sreq.MachineID) = "" THEN {"machineID"} ELSE {})
     |-> "required"]

SessionRefused(details) ==
  [status |-> StatusBadRequest, error |-> "validation_error", code |-> "400",
   details |-> details, location |-> <<>>, body |-> <<>>]

\* "s_" + strconv.FormatInt(now.UnixNano(), 10)
SessionID(at) == <<"s_", at>>

NewSession(userID, machineID, at) ==
  [ID |-> SessionID(at), UserID |-> userID, MachineID |-> machineID,
   StartedAt |-> at, SetsCount |-> 0]

SessionStarted(s) ==
  [status |-> StatusCreated, error |-> "", code |-> "", details |-> EmptyMap,
   location |-> <<"/sessions/", s.ID>>,
   body |-> <<s.ID, s.UserID, s.MachineID, s.StartedAt, s.SetsCount>>]

\* startSession up to the call of CreateSession: decoding and validation
SessStart(p, body) ==
  /\ sessProc[p].pc = "idle"
  /\ \A q \in Procs : q < p => sessProc[q].pc # "idle"
  /\ LET d == decodeStrictJSON(body)
         missing == sessionMissing(d.sreq)
     IN postapi' = [postapi EXCEPT !.sessProc[p] =
          IF d.err
          THEN [@ EXCEPT !.pc = "done", !.body = body,
                  !.resp = SessionRefused([message |-> "unknown field"])]
          ELSE IF DOMAIN missing # {}
          THEN [@ EXCEPT !.pc = "done", !.body = body, !.sreq = d.sreq,
                         !.resp = SessionRefused(missing)]
          ELSE [@ EXCEPT !.pc = "create", !.body = body, !.sreq = d.sreq]]
  /\ UNCHANGED <<coreVars, reader, fintech, bank, glob>>

\* store.CreateSession(ctx, userID, machineID, time.Now()): the Session is
\* put into s.m under s.mu, then the 201 response is written
CreateSession(p, at) ==
  /\ sessProc[p].pc = "create"
  /\ LET s == NewSession(sessProc[p].sreq.UserID, sessProc[p].sreq.MachineID,
                         at)
     IN postapi' = [postapi EXCEPT
          !.sessions = Put(sessions, s.ID, s),
          !.sessCreated = @ + 1,
          !.sessProc[p] = [@ EXCEPT !.pc = "done",
                                    !.resp = SessionStarted(s)]]
  /\ UNCHANGED <<coreVars, reader, fintech, bank, glob>>

SessionStep ==
  \/ \E p \in Procs, body \in SessBodies : SessStart(p, body)
  \/ \E p \in Procs, at \in SessTimes : CreateSession(p, at)

\* ------------------------------------------ fintechapi: createTransaction
\* validateTransactionRequest of this variant: no comparison of the two
\* accounts, no test for NaN or Inf
finValidate(in) ==
  (IF TrimSpace(in.FromAccountID) = "" THEN <<"from_account_id">> ELSE <<>>)
  \o (IF TrimSpace(in.ToAccountID) = "" THEN <<"to_account_id">> ELSE <<>>)
  \o (IF LessEqZero(in.Amount) THEN <<"amount">> ELSE <<>>)

FinAccepted(tr) ==
  [status |-> StatusAccepted, location |-> LocationOf(tr.ID),
   body |-> MarshalTransaction(tr)]

FinRefused(status, msg) ==
  [status |-> status, location |-> <<>>, body |-> ErrorBody(msg)]

\* the request arrives: header, bindJSON, validation, and the key != "" test
FinStart(p, k, in) ==
  /\ finProc[p].pc = "idle"
  /\ \A q \in Procs : q < p => finProc[q].pc # "idle"
  /\ fintech' = [fintech EXCEPT !.proc[p] =
       IF finValidate(in) # <<>>
       THEN [@ EXCEPT !.pc = "done", !.key = k, !.req = in,
                      !.resp = FinRefused(StatusBadRequest, finValidate(in))]
       ELSE [@ EXCEPT !.pc = IF k # NoKey THEN "load" ELSE "process",
                      !.key = k, !.req = in]]
  /\ UNCHANGED <<coreVars, reader, postapi, bank, glob>>

\* loadByKey (the map read under MuTransactions.RLock()): on a hit the
\* payloads are compared, Conflict or the cached Transaction is returned
FinLoadByKey(p) ==
  /\ finProc[p].pc = "load"
  /\ fintech' = [fintech EXCEPT !.proc[p] =
       IF finProc[p].key \in DOMAIN finIdemCache
       THEN LET cached == finIdemCache[finProc[p].key]
                in == finProc[p].req
            IN IF \/ in.Amount # cached.Amount
                  \/ in.FromAccountID # cached.FromAccountID
                  \/ in.ToAccountID # cached.ToAccountID
               THEN [@ EXCEPT !.pc = "done",
                       !.resp = FinRefused(StatusConflict,
                         "idempotency key reuse with different payload")]
               ELSE [@ EXCEPT !.pc = "done", !.resp = FinAccepted(cached)]
       ELSE [@ EXCEPT !.pc = "process"]]
  /\ UNCHANGED <<coreVars, reader, postapi, bank, glob>>

\* processNewTransaction: a Transaction with a new ID is put into
\* Transactions (under MuTransactions.Lock())
FinProcess(p) ==
  /\ finProc[p].pc = "process"
  /\ LET tr == NewTransaction(finProc[p].req, finNextID, 0)
     IN fintech' = [fintech EXCEPT
          !.Transactions = Put(finTransactions, tr.ID, tr),
          !.origin = Put(finOrigin, tr.ID, finProc[p].key),
          !.nextID = finNextID + 1,
          !.proc[p] = [@ EXCEPT !.pc = "store", !.t = tr]]
  /\ UNCHANGED <<coreVars, reader, postapi, bank, glob>>

\* storeByKey(key, t, store), called whatever the key is, then the response
FinStoreByKey(p) ==
  /\ finProc[p].pc = "store"
  /\ fintech' = [fintech EXCEPT
       !.idemCache = Put(finIdemCache, finProc[p].key, finProc[p].t),
       !.proc[p] = [@ EXCEPT !.pc = "done",
                             !.resp = FinAccepted(finProc[p].t)]]
  /\ UNCHANGED <<coreVars, reader, postapi, bank, glob>>

FinBodies == {P1, P2, PBlankTo}

FintechStep ==
  \/ \E p \in Procs, k \in Keys \cup {NoKey}, in \in FinBodies :
       FinStart(p, k, in)
  \/ \E p \in Procs : FinLoadByKey(p)
  \/ \E p \in Procs : FinProcess(p)
  \/ \E p \in Procs : FinStoreByKey(p)

\* ------------------------------------------------- bank: Deposit, Balance
\* amounts a deposit is called with (main deposits 1 each time)
DepositAmounts == {1, 2}

RECURSIVE SumAmounts(_)
SumAmounts(S) ==
  IF S = {} THEN 0
  ELSE LET i == CHOOSE x \in S : TRUE
       IN dep[i].amount + SumAmounts(S \ {i})

\* balance := bank.Balance() at the start of main: the read under mu.RLock()
MainInitial ==
  /\ mainProc.pc = "start"
  /\ bankMu = Free
  /\ bank' = [bank EXCEPT !.main.pc = "add", !.main.initial = balance]
  /\ UNCHANGED <<coreVars, reader, postapi, fintech, glob>>

\* wg.Add(n)
MainAdd ==
  /\ mainProc.pc = "add"
  /\ bank' = [bank EXCEPT !.main.pc = "spawn", !.wg = NumDepositors]
  /\ UNCHANGED <<coreVars, reader, postapi, fintech, glob>>

\* one turn of the loop: go func() { bank.Deposit(amount); wg.Done() }()
MainSpawn(a) ==
  /\ mainProc.pc = "spawn"
  /\ mainProc.started < NumDepositors
  /\ bank' = [bank EXCEPT
       !.main.started = @ + 1,
       !.dep[mainProc.started + 1] = [@ EXCEPT !.pc = "lock", !.amount = a]]
  /\ UNCHANGED <<coreVars, reader, postapi, fintech, glob>>

\* the loop ends and wg.Wait() returns once the counter is zero
MainWait ==
  /\ mainProc.pc = "spawn"
  /\ mainProc.started = NumDepositors
  /\ wg = 0
  /\ bank' = [bank EXCEPT !.main.pc = "final"]
  /\ UNCHANGED <<coreVars, reader, postapi, fintech, glob>>

\* balance = bank.Balance() after the wait
MainFinal ==
  /\ mainProc.pc = "final"
  /\ bankMu = Free
  /\ bank' = [bank EXCEPT !.main.pc = "done", !.main.final = balance]
  /\ UNCHANGED <<coreVars, reader, postapi, fintech, glob>>

\* faulty variant: Deposit does not wait for mu
DepositLockNoExclusion(i) ==
  /\ dep[i].pc = "lock"
  /\ bank' = [bank EXCEPT !.mu = i, !.dep[i].pc = "read"]
  /\ UNCHANGED <<coreVars, reader, postapi, fintech, glob>>

\* mu.Lock() in Deposit
DepositLock(i) ==
  /\ dep[i].pc = "lock"
  /\ bankMu = Free
  /\ bank' = [bank EXCEPT !.mu = i, !.dep[i].pc = "read"]
  /\ UNCHANGED <<coreVars, reader, postapi, fintech, glob>>

\* balance = balance + amount: the read of balance
DepositRead(i) ==
  /\ dep[i].pc = "read"
  /\ bank' = [bank EXCEPT !.dep[i].read = balance, !.dep[i].pc = "write"]
  /\ UNCHANGED <<coreVars, reader, postapi, fintech, glob>>

\* balance = balance + amount: the write of the sum
DepositWrite(i) ==
  /\ dep[i].pc = "write"
  /\ bank' = [bank EXCEPT !.balance = dep[i].read + dep[i].amount,
                          !.dep[i].pc = "unlock"]
  /\ UNCHANGED <<coreVars, reader, postapi, fintech, glob>>

\* mu.Unlock() in Deposit
DepositUnlock(i) ==
  /\ dep[i].pc = "unlock"
  /\ bank' = [bank EXCEPT !.mu = Free, !.dep[i].pc = "wgdone"]
  /\ UNCHANGED <<coreVars, reader, postapi, fintech, glob>>

\* wg.Done() after Deposit has returned
WgDone(i) ==
  /\ dep[i].pc = "wgdone"
  /\ bank' = [bank EXCEPT !.wg = @ - 1, !.dep[i].pc = "returned"]
  /\ UNCHANGED <<coreVars, reader, postapi, fintech, glob>>

BankStep ==
  \/ MainInitial
  \/ MainAdd
  \/ \E a \in DepositAmounts : MainSpawn(a)
  \/ MainWait
  \/ MainFinal
  \/ \E i \in Depositors : DepositLock(i)
  \/ \E i \in Depositors : DepositRead(i)
  \/ \E i \in Depositors : DepositWrite(i)
  \/ \E i \in Depositors : DepositUnlock(i)
  \/ \E i \in Depositors : WgDone(i)

\* --------------------------- createTransaction of the global-lock variant
\* the variant has no key locks: a keyed request holds MuTransactions from
\* its cache lookup to its deferred Unlock
\* header read, bindJSON, validation, fingerprint; the keyless path builds
\* its Transaction before taking the lock
GStart(p, k, in) ==
  /\ gProc[p].pc \in {"idle", "done"}
  /\ gStarted < MaxRequests
  /\ glob' =
       [glob EXCEPT
          !.started = @ + 1,
          !.nextID = IF validateTransactionRequest(in) = <<>> /\ k = ""
                     THEN @ + 1 ELSE @,
          !.proc[p] =
            IF validateTransactionRequest(in) # <<>>
            THEN [pc |-> "done", key |-> k, req |-> in, t |-> @.t,
                  resp |-> [status |-> StatusBadRequest, location |-> <<>>,
                            body |-> ErrorBody(validateTransactionRequest(in))]]
            ELSE IF k # ""
            THEN [pc |-> "g_lock", key |-> k, req |-> in, t |-> @.t,
                  resp |-> NoResponse]
            ELSE [pc |-> "g_nk_lock", key |-> k, req |-> in,
                  t |-> NewTransaction(in, gNextID, now),
                  resp |-> NoResponse]]
  /\ UNCHANGED <<coreVars, reader, postapi, fintech, bank>>

\* faulty variant: the keyed path enters without waiting for MuTransactions
GLockNoWait(p) ==
  /\ gProc[p].pc = "g_lock"
  /\ glob' = [glob EXCEPT !.mu = p, !.proc[p].pc = "g_check"]
  /\ UNCHANGED <<coreVars, reader, postapi, fintech, bank>>

\* store.MuTransactions.Lock() on the keyed path
GLock(p) ==
  /\ gProc[p].pc = "g_lock"
  /\ gMu = Free
  /\ glob' = [glob EXCEPT !.mu = p, !.proc[p].pc = "g_check"]
  /\ UNCHANGED <<coreVars, reader, postapi, fintech, bank>>

\* the answer of the replay branch: Location from rec.Tr.ID, writeJSON of
\* rec.StatusCode and rec.Tr
GReplayResponse(rec) ==
  [status |-> rec.StatusCode, location |-> LocationOf(rec.Tr.ID),
   body |-> MarshalTransaction(rec.Tr)]

\* the answer of the conflict branch
GConflictResponse ==
  [status |-> StatusConflict, location |-> <<>>,
   body |-> ErrorBody("idempotency key reuse with different payload")]

\* cache lookup: conflict, replay, or (miss) build and insert the Transaction
GCheck(p) ==
  /\ gProc[p].pc = "g_check"
  /\ IF gProc[p].key \in DOMAIN gIdemCache
     THEN IF gIdemCache[gProc[p].key].Hash # fingerprint(gProc[p].req)
          THEN glob' = [glob EXCEPT !.proc[p].resp = GConflictResponse,
                                    !.proc[p].pc = "g_unlock"]
          ELSE glob' = [glob EXCEPT
                          !.proc[p].resp =
                            GReplayResponse(gIdemCache[gProc[p].key]),
                          !.proc[p].pc = "g_unlock"]
     ELSE LET tr == NewTransaction(gProc[p].req, gNextID, now) IN
          glob' = [glob EXCEPT
                     !.nextID = @ + 1,
                     !.Transactions = Put(@, tr.ID, tr),
                     !.proc[p].t = tr,
                     !.proc[p].pc = "g_store"]
  /\ UNCHANGED <<coreVars, reader, postapi, fintech, bank>>

\* the idemRecord of a fresh create
GIdemRecord(fp, tr) == [Hash |-> fp, Tr |-> tr, StatusCode |-> StatusAccepted]

\* store.idemCache[key] = idemRecord{...}, Location header, writeJSON
GStore(p) ==
  /\ gProc[p].pc = "g_store"
  /\ glob' =
       [glob EXCEPT
          !.idemCache = Put(@, gProc[p].key,
                            GIdemRecord(fingerprint(gProc[p].req), gProc[p].t)),
          !.proc[p].resp =
            [status |-> StatusAccepted, location |-> LocationOf(gProc[p].t.ID),
             body |-> MarshalTransaction(gProc[p].t)],
          !.proc[p].pc = "g_unlock"]
  /\ UNCHANGED <<coreVars, reader, postapi, fintech, bank>>

\* deferred store.MuTransactions.Unlock()
GUnlock(p) ==
  /\ gProc[p].pc = "g_unlock"
  /\ glob' = [glob EXCEPT !.mu = Free, !.proc[p].t = ZeroTransaction,
                          !.proc[p].pc = "done"]
  /\ UNCHANGED <<coreVars, reader, postapi, fintech, bank>>

\* keyless path: store.MuTransactions.Lock()
GNoKeyLock(p) ==
  /\ gProc[p].pc = "g_nk_lock"
  /\ gMu = Free
  /\ glob' = [glob EXCEPT !.mu = p, !.proc[p].pc = "g_nk_put"]
  /\ UNCHANGED <<coreVars, reader, postapi, fintech, bank>>

\* keyless path: store.Transactions[t.ID] = t; store.MuTransactions.Unlock();
\* Location header, writeJSON
GNoKeyPut(p) ==
  /\ gProc[p].pc = "g_nk_put"
  /\ glob' =
       [glob EXCEPT
          !.Transactions = Put(@, gProc[p].t.ID, gProc[p].t),
          !.mu = Free,
          !.proc[p].resp =
            [status |-> StatusAccepted, location |-> LocationOf(gProc[p].t.ID),
             body |-> MarshalTransaction(gProc[p].t)],
          !.proc[p].t = ZeroTransaction,
          !.proc[p].pc = "done"]
  /\ UNCHANGED <<coreVars, reader, postapi, fintech, bank>>

GlobalStep ==
  \/ \E p \in Procs, k \in Keys \cup {NoKey}, in \in Payloads : GStart(p, k, in)
  \/ \E p \in Procs : GLock(p)
  \/ \E p \in Procs : GCheck(p)
  \/ \E p \in Procs : GStore(p)
  \/ \E p \in Procs : GUnlock(p)
  \/ \E p \in Procs : GNoKeyLock(p)
  \/ \E p \in Procs : GNoKeyPut(p)

\* ------------------------------------------------------- specification
RequestStep ==
  \/ \E p \in Procs, k \in Keys \cup {NoKey}, in \in Payloads : Start(p, k, in)
  \/ \E p \in Procs : AcquireLock(p)
  \/ \E p \in Procs : AcquireGet(p)
  \/ \E p \in Procs : AcquireInc(p)
  \/ \E p \in Procs : KeyLockLock(p)
  \/ \E p \in Procs : TxLock(p)
  \/ \E p \in Procs : Check(p)
  \/ \E p \in Procs : Store(p)
  \/ \E p \in Procs : TxUnlock(p)
  \/ \E p \in Procs : KeyLockUnlock(p)
  \/ \E p \in Procs : ReleaseLock(p)
  \/ \E p \in Procs : ReleaseDec(p)
  \/ \E p \in Procs : ReleaseDel(p)
  \/ \E p \in Procs : NoKeyLock(p)
  \/ \E p \in Procs : NoKeyPut(p)

SweeperStep ==
  \/ SweeperTick
  \/ SweeperStop
  \/ SweeperPark
  \/ TickerFire
  \/ SweeperLock
  \/ SweeperScan
  \/ SweeperUnlock
  \/ Cancel
  \/ Tick

Next ==
  RequestStep \/ SweeperStep \/ GetStep \/ ListStep \/ PostapiStep
  \/ FintechStep \/ BankStep \/ SessionStep \/ GlobalStep

Spec == Init /\ [][Next]_vars

\* the request handlers alone: no sweeper is started and the clock stands
SpecRequests == Init /\ [][RequestStep]_vars

\* the request handlers fed with one valid request and every kind of invalid
\* request
ValidationStep ==
  \/ \E p \in Procs, k \in Keys \cup {NoKey}, in \in InvalidPayloads \cup {P1} :
       Start(p, k, in)
  \/ \E p \in Procs : AcquireLock(p)
  \/ \E p \in Procs : AcquireGet(p)
  \/ \E p \in Procs : AcquireInc(p)
  \/ \E p \in Procs : KeyLockLock(p)
  \/ \E p \in Procs : TxLock(p)
  \/ \E p \in Procs : Check(p)
  \/ \E p \in Procs : Store(p)
  \/ \E p \in Procs : TxUnlock(p)
  \/ \E p \in Procs : KeyLockUnlock(p)
  \/ \E p \in Procs : ReleaseLock(p)
  \/ \E p \in Procs : ReleaseDec(p)
  \/ \E p \in Procs : ReleaseDel(p)
  \/ \E p \in Procs : NoKeyLock(p)
  \/ \E p \in Procs : NoKeyPut(p)

SpecValidation == Init /\ [][ValidationStep]_vars

\* the sweeper, the ticker, the clock and the cancel function next to the
\* handlers of SweepProcs concurrent requests
SweepRequestStep ==
  \/ \E p \in 1..SweepProcs, k \in Keys \cup {NoKey}, in \in {P1, P2} :
       Start(p, k, in)
  \/ \E p \in 1..SweepProcs : AcquireLock(p)
  \/ \E p \in 1..SweepProcs : AcquireGet(p)
  \/ \E p \in 1..SweepProcs : AcquireInc(p)
  \/ \E p \in 1..SweepProcs : KeyLockLock(p)
  \/ \E p \in 1..SweepProcs : TxLock(p)
  \/ \E p \in 1..SweepProcs : Check(p)
  \/ \E p \in 1..SweepProcs : Store(p)
  \/ \E p \in 1..SweepProcs : TxUnlock(p)
  \/ \E p \in 1..SweepProcs : KeyLockUnlock(p)
  \/ \E p \in 1..SweepProcs : ReleaseLock(p)
  \/ \E p \in 1..SweepProcs : ReleaseDec(p)
  \/ \E p \in 1..SweepProcs : ReleaseDel(p)
  \/ \E p \in 1..SweepProcs : NoKeyLock(p)
  \/ \E p \in 1..SweepProcs : NoKeyPut(p)

SpecSweep == Init /\ [][SweepRequestStep \/ SweeperStep]_vars

\* the sweeper running against requests of one key, under the scheduling
\* the runtime gives: a request that can take a step takes one, the sweeper goes on through lock, scan and unlock, and a
\* select that finds ctx.Done() ready again and again takes that case at
\* some point (select picks among the ready cases uniformly at random)
FairRequestStep ==
  \/ \E p \in 1..SweepProcs : Start(p, "k1", P1)
  \/ \E p \in 1..SweepProcs : AcquireLock(p)
  \/ \E p \in 1..SweepProcs : AcquireGet(p)
  \/ \E p \in 1..SweepProcs : AcquireInc(p)
  \/ \E p \in 1..SweepProcs : KeyLockLock(p)
  \/ \E p \in 1..SweepProcs : TxLock(p)
  \/ \E p \in 1..SweepProcs : Check(p)
  \/ \E p \in 1..SweepProcs : Store(p)
  \/ \E p \in 1..SweepProcs : TxUnlock(p)
  \/ \E p \in 1..SweepProcs : KeyLockUnlock(p)
  \/ \E p \in 1..SweepProcs : ReleaseLock(p)
  \/ \E p \in 1..SweepProcs : ReleaseDec(p)
  \/ \E p \in 1..SweepProcs : ReleaseDel(p)

SpecSweepFair ==
  /\ Init /\ [][FairRequestStep \/ SweeperStep]_vars
  /\ WF_vars(FairRequestStep)
  /\ WF_vars(SweeperLock) /\ WF_vars(SweeperScan) /\ WF_vars(SweeperUnlock)
  /\ SF_vars(SweeperStop)

\* keyed requests over payloads that differ in one field each, submitted at
\* different readings of the clock
FingerprintStep ==
  \/ \E p \in 1..SweepProcs, k \in Keys, in \in FingerprintPayloads :
       Start(p, k, in)
  \/ \E p \in 1..SweepProcs : AcquireLock(p)
  \/ \E p \in 1..SweepProcs : AcquireGet(p)
  \/ \E p \in 1..SweepProcs : AcquireInc(p)
  \/ \E p \in 1..SweepProcs : KeyLockLock(p)
  \/ \E p \in 1..SweepProcs : TxLock(p)
  \/ \E p \in 1..SweepProcs : Check(p)
  \/ \E p \in 1..SweepProcs : Store(p)
  \/ \E p \in 1..SweepProcs : TxUnlock(p)
  \/ \E p \in 1..SweepProcs : KeyLockUnlock(p)
  \/ \E p \in 1..SweepProcs : ReleaseLock(p)
  \/ \E p \in 1..SweepProcs : ReleaseDec(p)
  \/ \E p \in 1..SweepProcs : ReleaseDel(p)
  \/ Tick

SpecFingerprint == Init /\ [][FingerprintStep]_vars

\* pagination over a store that does not change
SpecList == ListInit /\ [][ListStep]_vars

\* the limit parameter over a store that does not change
SpecLimit == ListInit /\ [][LimitStep]_vars

\* lookups by ID running against the create requests
SpecGet == Init /\ [][RequestStep \/ GetStep]_vars

\* the payments server, each request handler run once
SpecPostapi == Init /\ [][PostapiStep]_vars

\* the first transaction server, each request handler run once
SpecFintech == Init /\ [][FintechStep]_vars

\* the bank: main and the deposits it starts
SpecBank == Init /\ [][BankStep]_vars

\* the sessions server, each request handler run once
SpecSessions == Init /\ [][SessionStep]_vars

\* pagination while keyless requests insert
SpecListInsert == ListInsertInit /\ [][InsertStep \/ WalkStep]_vars

\* the steps of request p that wait for no mutex
Proceed(p) ==
  \/ AcquireGet(p) \/ AcquireInc(p) \/ Check(p) \/ Store(p) \/ TxUnlock(p)
  \/ KeyLockUnlock(p) \/ ReleaseDec(p) \/ ReleaseDel(p) \/ NoKeyPut(p)

\* the steps of request p that are a Lock() of some mutex
LockStep(p) ==
  \/ AcquireLock(p) \/ KeyLockLock(p) \/ TxLock(p) \/ ReleaseLock(p)
  \/ NoKeyLock(p)

LiveRequestStep ==
  \/ \E p \in Procs, k \in Keys \cup {NoKey} : Start(p, k, P1)
  \/ \E p \in Procs : Proceed(p)
  \/ \E p \in Procs : LockStep(p)

\* a sweeper that is never cancelled, its ticker firing at any time
LiveSweeperStep ==
  \/ SweeperTick
  \/ SweeperPark
  \/ TickerFire
  \/ SweeperLock
  \/ SweeperScan
  \/ SweeperUnlock

\* requests of any keys and without key, lookups by ID and sweeper passes
\* under the scheduling the runtime gives: a goroutine that can run does
\* run, and a goroutine waiting in Lock() gets the mutex if it is free again
\* and again (sync.Mutex hands the lock to a starving waiter)
SpecLive ==
  /\ Init
  /\ [][LiveRequestStep \/ LiveSweeperStep \/ Get(1)]_vars
  /\ \A p \in Procs : WF_vars(Proceed(p)) /\ SF_vars(LockStep(p))
  /\ WF_vars(SweeperScan \/ SweeperUnlock)

\* ----------------------------------------------------------- properties
\* positions of a keyed request inside lockRegistry.acquire
AcquirePcs == {"acq_lock", "acq_get", "acq_inc", "kl_lock"}

\* positions between the return of acquire and the call of its release handle
HoldPcs == {"tx_lock", "check", "store", "tx_unlock", "kl_unlock"}

\* positions inside the release handle, after kl.mu.Unlock()
ReleasePcs == {"rel_lock", "rel_dec", "rel_del"}

\* the Transactions inserted by requests carrying key k
TxOf(k) == {id \in DOMAIN Transactions : origin[id] = k}

\* the outcome an idempotency entry caches
OutcomeOf(rec) ==
  [status |-> rec.StatusCode, location |-> rec.Location, body |-> rec.Body]

\* the request fields a Transaction was created from
PayloadOf(tr) ==
  [FromAccountID |-> tr.FromAccountID, ToAccountID |-> tr.ToAccountID,
   Amount |-> tr.Amount]

\* request p takes a step
Moves(p) == pc'[p] # pc[p]

\* C1: as long as the entry of key K has not been evicted, the Record Store
\* holds at most one Transaction inserted for K, and exactly one as soon as
\* some submission under K has been answered 202, however many same-key
\* submissions run concurrently.
C1_OneTransactionPerKey ==
  \A k \in Keys :
    k \notin evicted =>
      /\ Cardinality(TxOf(k)) <= 1
      /\ (\E p \in Procs : key[p] = k /\ resp[p].status = StatusAccepted)
           => Cardinality(TxOf(k)) = 1

\* two overlapping submissions of the same (K, P), both answered 202
C1_Witness ==
  \E p, q \in Procs :
    /\ p # q /\ key[p] \in Keys /\ key[p] = key[q] /\ req[p] = req[q]
    /\ pc[p] \in ReleasePcs /\ pc[q] \in HoldPcs \cup ReleasePcs
    /\ resp[p].status = StatusAccepted /\ resp[q].status = StatusAccepted
    /\ Cardinality(TxOf(key[p])) = 1

\* C2: every success response to a keyed request is the outcome stored in
\* the idempotency entry of its key (same status code, Location and body),
\* and that entry was committed for the same payload; hence all responses to
\* the same (K, P) agree.
C2_ResponseIsStoredOutcome ==
  \A p \in Procs :
    (key[p] \in Keys /\ key[p] \notin evicted
       /\ resp[p].status \notin {0, StatusConflict, StatusBadRequest})
    => /\ key[p] \in DOMAIN idemCache
       /\ resp[p] = OutcomeOf(idemCache[key[p]])
       /\ resp[p].status = StatusAccepted
       /\ PayloadOf(idemCache[key[p]].Tr) = req[p]
       /\ \A q \in Procs :
            (key[q] = key[p] /\ req[q] = req[p] /\ resp[q].status # 0)
              => resp[q] = resp[p]

\* the winner and a replayed request of the same (K, P) have both returned
C2_Witness ==
  \E p, q \in Procs :
    /\ p # q /\ key[p] \in Keys /\ key[p] = key[q] /\ req[p] = req[q]
    /\ pc[p] = "done" /\ pc[q] = "done"
    /\ resp[p].status = StatusAccepted /\ resp[q] = resp[p]

\* C3: a submission of (K, P) that finds the entry of K cached with the
\* fingerprint of P is answered with the cached status code, body and
\* Location, and that step changes neither the Record Store nor the cache.
C3_ReplayIsIdempotent ==
  [][\A p \in Procs :
       (pc[p] = "check" /\ Moves(p) /\ key[p] \in DOMAIN idemCache
          /\ PayloadOf(idemCache[key[p]].Tr) = req[p])
       => /\ resp'[p] = OutcomeOf(idemCache[key[p]])
          /\ resp'[p].body = MarshalTransaction(Transactions[idemCache[key[p]].Tr.ID])
          /\ pc'[p] = "tx_unlock"
          /\ UNCHANGED <<Transactions, idemCache, origin>>]_vars

\* a replayed request has returned the cached outcome
C3_Witness ==
  \E p \in Procs :
    /\ pc[p] = "tx_unlock" /\ t[p] = ZeroTransaction
    /\ resp[p].status = StatusAccepted /\ key[p] \in DOMAIN idemCache
    /\ resp[p] = OutcomeOf(idemCache[key[p]])

\* C4: a submission (K, P2) that finds the entry of K cached for a different
\* payload is answered 409 Conflict and no Transaction is inserted.
C4_DifferentPayloadConflicts ==
  [][\A p \in Procs :
       (pc[p] = "check" /\ Moves(p) /\ key[p] \in DOMAIN idemCache
          /\ PayloadOf(idemCache[key[p]].Tr) # req[p])
       => /\ resp'[p].status = StatusConflict
          /\ pc'[p] = "tx_unlock"
          /\ Transactions' = Transactions]_vars

\* a request has been answered Conflict while exactly one Transaction of its
\* key exists
C4_Witness ==
  \E p \in Procs :
    /\ resp[p].status = StatusConflict /\ key[p] \in DOMAIN idemCache
    /\ PayloadOf(idemCache[key[p]].Tr) # req[p]
    /\ Cardinality(TxOf(key[p])) = 1

\* C5: no step of a keyed request that ends in Conflict changes the Record
\* Store or the idempotency cache: not the steps up to the lookup, not the
\* step that answers 409, not the steps that follow it.
C5_ConflictMutatesNothing ==
  [][\A p \in Procs :
       (Moves(p) /\ HasKey(key'[p])
          /\ \/ pc[p] \in AcquirePcs \cup {"tx_lock"}
             \/ resp'[p].status = StatusConflict)
       => UNCHANGED <<Transactions, idemCache, origin>>]_vars

\* after a Conflict on K the original (K, P1) has been replayed
C5_Witness ==
  \E p, q \in Procs :
    /\ p # q /\ key[p] \in Keys /\ key[p] = key[q]
    /\ resp[p].status = StatusConflict /\ pc[p] = "done"
    /\ resp[q].status = StatusAccepted /\ pc[q] = "tx_unlock"
    /\ t[q] = ZeroTransaction /\ started = 3

\* C6: the step that answers a keyless submission 202 inserts a Transaction
\* under an ID the Record Store did not hold before, and the Location of the
\* response names that ID; so keyless submissions never share a record.
C6_KeylessCreatesNewRecord ==
  [][\A p \in Procs :
       (key'[p] = NoKey /\ resp[p].status = 0 /\ resp'[p].status # 0
          /\ validateTransactionRequest(req'[p]) = <<>>)
       => \E id \in DOMAIN Transactions' :
            /\ id \notin DOMAIN Transactions
            /\ resp'[p].status = StatusAccepted
            /\ resp'[p].location = LocationOf(id)
            /\ PayloadOf(Transactions'[id]) = req'[p]
            /\ \A q \in Procs \ {p} : resp'[q].location # resp'[p].location]_vars

\* two keyless submissions of the same payload have both been answered
C6_Witness ==
  \E p, q \in Procs :
    /\ p # q /\ key[p] = NoKey /\ key[q] = NoKey /\ req[p] = req[q]
    /\ resp[p].status = StatusAccepted /\ resp[q].status = StatusAccepted
    /\ resp[p].location # resp[q].location
    /\ Cardinality(TxOf(NoKey)) = 2

\* C7: no step of a keyless request changes the idempotency cache or the
\* lock registry, and a keyless request never enters acquire or the keyed
\* critical section.
C7_KeylessLeavesCacheAndRegistry ==
  [][\A p \in Procs :
       (Moves(p) /\ key'[p] = NoKey)
       => /\ UNCHANGED <<idemCache, regMu, regM, klRefs, klMu>>
          /\ pc'[p] \in {"nk_lock", "nk_put", "done"}
          /\ kl'[p] = NoKL]_vars

\* a keyless request has inserted its Transaction while the cache holds an
\* entry and the registry holds a key lock
C7_Witness ==
  \E p \in Procs :
    /\ key[p] = NoKey /\ resp[p].status = StatusAccepted
    /\ DOMAIN idemCache # {} /\ DOMAIN regM # {}

\* C8: two requests with the same idempotency key are never both between
\* the return of acquire and the call of the release handle.
C8_PerKeyMutualExclusion ==
  \A p, q \in Procs :
    (p # q /\ pc[p] \in HoldPcs /\ pc[q] \in HoldPcs) => key[p] # key[q]

\* one request holds the key lock of K while another waits for the same
\* keyLock, after an earlier request has returned
C8_Witness ==
  \E p, q \in Procs :
    /\ p # q /\ key[p] = key[q]
    /\ pc[p] \in HoldPcs /\ pc[q] = "kl_lock" /\ kl[p] = kl[q]
    /\ klMu[kl[p]] = p /\ started = 3

\* C9: while the registry mutex is free, every entry of the registry has a
\* reference count of at least 1 and every keyLock with a count of at least 1
\* is an entry of the registry; no count is ever negative.
C9_EntryIffReferenced ==
  /\ \A o \in KLObjs : klRefs[o] >= 0
  /\ regMu = Free =>
       /\ \A k \in DOMAIN regM : klRefs[regM[k]] >= 1
       /\ \A o \in KLObjs :
            klRefs[o] >= 1 => \E k \in DOMAIN regM : regM[k] = o

\* the registry mutex is free, one entry is referenced twice, and another
\* request has already dropped its reference
C9_Witness ==
  /\ regMu = Free
  /\ \E k \in DOMAIN regM : klRefs[regM[k]] = 2
  /\ started = 3

\* C10: every key resident in the registry is the key of a request that has
\* entered acquire and not yet finished its release handle; with no such
\* request the registry is empty.
C10_RegistryBoundedByInFlight ==
  DOMAIN regM \subseteq
    {key[p] : p \in {q \in Procs :
                       pc[q] \in AcquirePcs \cup HoldPcs \cup ReleasePcs}}

\* every request has returned, keyed ones among them, and the registry is
\* empty
C10_Witness ==
  /\ \A p \in Procs : pc[p] = "done"
  /\ \E p \in Procs : key[p] \in Keys /\ resp[p].status = StatusAccepted
  /\ started = 3
  /\ DOMAIN regM = {}

\* C11: a request that holds lockRegistry.mu is inside one of the two short
\* registry sections (lookup/create/count in acquire, count/delete in the
\* release handle); it is never at kl.mu.Lock(), and the release handle never
\* waits for a key lock at all.
C11_RegistryMutexNotHeldWhileWaiting ==
  \A p \in Procs :
    /\ regMu = p => pc[p] \in {"acq_get", "acq_inc", "rel_dec", "rel_del"}
    /\ pc[p] = "kl_lock" => regMu # p

\* a request is blocked on a key lock another request holds, while a third
\* party is free to take the registry mutex
C11_Witness ==
  \E p, q \in Procs :
    /\ p # q /\ pc[p] = "kl_lock" /\ klMu[kl[p]] = q
    /\ regMu = Free

RefPcs == {"kl_lock"} \cup HoldPcs \cup {"rel_lock", "rel_dec"}

\* C13: a request that has returned holds no mutex at all (no key lock, not
\* MuTransactions, not the registry mutex) and no keyLock any more, and the
\* count of every keyLock is exactly the number of requests that have counted
\* themselves in and not yet out: each reference is dropped once, not twice
\* and not never.
C13_ReturnedHoldsNothing ==
  /\ \A p \in Procs :
       pc[p] = "done" =>
         /\ MuTransactions # p /\ regMu # p /\ kl[p] = NoKL
         /\ \A o \in KLObjs : klMu[o] # p
  /\ \A o \in KLObjs :
       klRefs[o] = Cardinality({p \in Procs : kl[p] = o /\ pc[p] \in RefPcs})

\* requests of one key have returned from the conflict branch and from a
\* success branch, and every lock is free again
C13_Witness ==
  /\ \E p, q \in Procs :
       /\ key[p] \in Keys /\ key[p] = key[q]
       /\ pc[p] = "done" /\ pc[q] = "done"
       /\ resp[p].status = StatusConflict /\ resp[q].status = StatusAccepted
  /\ started = 3
  /\ MuTransactions = Free /\ regMu = Free
  /\ \A o \in KLObjs : klMu[o] = Free /\ klRefs[o] = 0

\* C14: a request with a blank source or destination, with source equal to
\* destination, or with an amount that is not positive and finite is answered
\* 400 by its very first step, takes no lock, and leaves the Record Store, the
\* idempotency cache and the lock registry as they were, with or without a
\* key; a valid request is not answered 400.
C14_InvalidRejectedBeforeAnyLock ==
  [][\A p \in Procs :
       (Moves(p) /\ pc[p] \in {"idle", "done"})
       => IF req'[p] \in InvalidPayloads
          THEN /\ resp'[p].status = StatusBadRequest
               /\ pc'[p] = "done" /\ kl'[p] = NoKL
               /\ UNCHANGED <<Transactions, idemCache, origin, nextID,
                              MuTransactions, regMu, regM, klRefs, klMu>>
          ELSE /\ resp'[p].status = 0
               /\ pc'[p] \in {"acq_lock", "nk_lock"}]_vars

\* a keyed request with equal source and destination has been rejected while
\* a request of the same key is inside its check/insert section
C14_Witness ==
  \E p, q \in Procs :
    /\ p # q /\ HasKey(key[p]) /\ key[q] = key[p]
    /\ req[p] = PBad /\ resp[p].status = StatusBadRequest /\ pc[p] = "done"
    /\ pc[q] = "check" /\ MuTransactions = q

\* C15: whenever MuTransactions is free, the Transaction cached in each
\* idempotency entry is in the Record Store under its ID, the stored
\* Transaction equals the cached copy, and the cached Location and body are
\* those of that Transaction.
C15_EntryRefersToStoredRecord ==
  MuTransactions = Free =>
    \A k \in DOMAIN idemCache :
      /\ idemCache[k].Tr.ID \in DOMAIN Transactions
      /\ Transactions[idemCache[k].Tr.ID] = idemCache[k].Tr
      /\ idemCache[k].Location = LocationOf(idemCache[k].Tr.ID)
      /\ idemCache[k].Body = MarshalTransaction(idemCache[k].Tr)

\* MuTransactions is free, both keys have an entry, and a keyless
\* Transaction is in the store as well
C15_Witness ==
  /\ MuTransactions = Free
  /\ DOMAIN idemCache = Keys
  /\ Cardinality(DOMAIN Transactions) = 3

\* C16: no step deletes or changes a Transaction of the Record Store; a step
\* that changes the store adds exactly one Transaction under a new ID, and it
\* is a step of the request that holds MuTransactions.
C16_RecordStoreOnlyGrows ==
  [][/\ \A id \in DOMAIN Transactions :
          id \in DOMAIN Transactions' /\ Transactions'[id] = Transactions[id]
     /\ Transactions' # Transactions =>
          /\ Cardinality(DOMAIN Transactions' \ DOMAIN Transactions) = 1
          /\ MuTransactions \in Procs
          /\ Moves(MuTransactions)]_vars

\* two Transactions are stored, a sweep has evicted an entry, and a request
\* has been answered Conflict
C16_Witness ==
  /\ Cardinality(DOMAIN Transactions) = 2
  /\ evicted # {}
  /\ \E p \in Procs : resp[p].status = StatusConflict

\* C17: the scan of a sweep pass leaves exactly the entries whose age at the
\* pass time (swNow - CreatedAt) does not exceed the TTL, each unchanged, and
\* none whose age exceeds it; the cache stays so until the pass unlocks.
C17_SweepPurgesExactlyExpired ==
  [][/\ (swPc = "scan" /\ swPc' = "unlock") =>
          /\ DOMAIN idemCache' =
               {k \in DOMAIN idemCache :
                  swNow - idemCache[k].CreatedAt <= idemTTL}
          /\ \A k \in DOMAIN idemCache' : idemCache'[k] = idemCache[k]
     /\ (swPc = "unlock" /\ swPc' = "select") => idemCache' = idemCache]_vars

\* a pass has scanned: one key's entry is purged, and an entry whose age is
\* exactly the TTL is kept
C17_Witness ==
  /\ swPc = "unlock"
  /\ \E k \in evicted : k \notin DOMAIN idemCache
  /\ \E k \in DOMAIN idemCache : swNow - idemCache[k].CreatedAt = idemTTL

\* C18: every step of the sweeper (receiving a tick, locking, scanning,
\* unlocking, stopping) leaves the Transactions map as it was, also when the
\* step purges the idempotency entry of a stored Transaction.
C18_SweepLeavesRecordStore ==
  [][swPc' # swPc => Transactions' = Transactions]_vars

\* a pass has purged the entry of a key whose Transaction is still stored
C18_Witness ==
  /\ swPc = "unlock"
  /\ \E k \in evicted : k \notin DOMAIN idemCache /\ TxOf(k) # {}

\* C19: a request with key K that reaches the cache lookup after the entry of
\* K was purged (and not yet re-created) takes the miss branch whatever its
\* payload: it inserts a Transaction of its payload under an ID the store did
\* not hold, every Transaction inserted for K before stays as it was, and its
\* next step stores a new entry for K and answers 202 with the new ID.
C19_ResubmissionAfterEvictionIsFirstAttempt ==
  [][\A p \in Procs :
       /\ (/\ pc[p] = "check" /\ Moves(p)
           /\ key[p] \in evicted /\ key[p] \notin DOMAIN idemCache) =>
            /\ pc'[p] = "store"
            /\ t'[p].ID \notin DOMAIN Transactions
            /\ t'[p].ID \in DOMAIN Transactions'
            /\ Transactions'[t'[p].ID] = t'[p]
            /\ PayloadOf(t'[p]) = req[p]
            /\ TxOf(key[p]) # {}
            /\ \A id \in TxOf(key[p]) :
                 id \in DOMAIN Transactions'
                 /\ Transactions'[id] = Transactions[id]
       /\ (pc[p] = "store" /\ Moves(p) /\ key[p] \in evicted) =>
            /\ key[p] \in DOMAIN idemCache'
            /\ idemCache'[key[p]].Tr = t[p]
            /\ idemCache'[key[p]].Hash = fingerprint(req[p])
            /\ resp'[p].status = StatusAccepted
            /\ resp'[p].location = LocationOf(t[p].ID)]_vars

\* the entry of K was purged, and a resubmission with another payload has
\* returned 202: two Transactions of different payloads are stored for K and
\* the entry of K refers to the one the resubmission was answered with
C19_Witness ==
  \E p \in Procs :
    /\ pc[p] = "done" /\ key[p] \in evicted
    /\ key[p] \in DOMAIN idemCache
    /\ resp[p].status = StatusAccepted
    /\ resp[p].location = LocationOf(idemCache[key[p]].Tr.ID)
    /\ Cardinality(TxOf(key[p])) = 2
    /\ \E a, b \in TxOf(key[p]) :
         PayloadOf(Transactions[a]) # PayloadOf(Transactions[b])

\* C20: once the sweeper's context is cancelled, the sweeper begins no
\* further pass, i.e. it no longer leaves its select through case <-ticker.C,
\* even if a tick is buffered at the moment of cancellation. (The select of
\* startCacheSweeperWith takes either case when both are ready, so the code
\* does not guarantee this.)
C20_NoPassAfterCancel ==
  [][ctxDone => ~(swPc \in {"select", "parked"} /\ swPc' = "lock")]_vars

\* C21: once the context is cancelled the sweeper returns at some point,
\* given fair scheduling; it has released MuTransactions whenever it has
\* returned; and it returns from its select only, so that a pass that has
\* begun runs through its scan to its unlock.
C21_SweeperStopsCleanly ==
  /\ ctxDone ~> (swPc = "stopped")
  /\ [](swPc = "stopped" => MuTransactions # SweeperId)
  /\ [][(swPc # "stopped" /\ swPc' = "stopped")
         => swPc \in {"select", "parked"}]_vars
  /\ (swPc \in {"lock", "scan", "unlock"}) ~> (swPc = "select")

\* the sweeper has returned after purging an entry, while a request holds
\* MuTransactions
C21_Witness ==
  /\ swPc = "stopped" /\ ctxDone
  /\ evicted # {}
  /\ MuTransactions \in Procs

\* C22: over a store that does not change, the pages obtained from the empty
\* cursor by following next_cursor, under one filter and one limit, are in
\* strictly ascending (At, ID) order as far as they go, and once next_cursor
\* comes back empty they hold every Transaction the filter matches exactly
\* once.
C22_PagesYieldEveryMatchOnceInOrder ==
  lsWalk =>
    LET from == TrimSpace(lsReq.from)
        matching == {Transactions[id] : id \in
                       {i \in DOMAIN Transactions :
                          from = "" \/ Transactions[i].FromAccountID = from}}
    IN /\ \A i, j \in 1..Len(lsSeen) :
            i < j => \/ lsSeen[i].At < lsSeen[j].At
                     \/ /\ lsSeen[i].At = lsSeen[j].At
                        /\ lsSeen[i].ID < lsSeen[j].ID
       /\ \A i \in 1..Len(lsSeen) : lsSeen[i] \in matching
       /\ lsResp.next = <<>> =>
            /\ Len(lsSeen) = Cardinality(matching)
            /\ {lsSeen[i] : i \in 1..Len(lsSeen)} = matching

\* three pages of one item under a filter: the walk is over, two of the
\* items have the same At, and the last item has the smallest ID
C22_Witness ==
  /\ lsWalk /\ lsResp.next = <<>>
  /\ lsReq.from = "A1" /\ lsReq.limit = <<"1">> /\ lsReq.cursor # <<>>
  /\ Len(lsSeen) = 3
  /\ lsSeen[1].At = lsSeen[2].At
  /\ lsSeen[3].ID < lsSeen[1].ID

\* C23: a call that presents the cursor the previous answer issued, with a
\* from_account_id filter other than the one of the query that answer was
\* given to (the empty filter included, on either side), is refused with
\* Bad Request. (The mismatch test of listTransactions is skipped for a
\* cursor issued without filter, so the code does not guarantee this.)
C23_CursorUnderOtherFilterRefused ==
  [][(/\ lsResp.next # <<>>
      /\ lsReq'.cursor = lsResp.next
      /\ TrimSpace(lsReq'.from) # TrimSpace(lsReq.from))
     => lsResp'.status = StatusBadRequest]_vars

\* C24: a listing whose limit is not a number, or a number outside
\* 1..maxLimit, is answered Bad Request, and one without limit is not refused
\* for its limit and gets at most defaultLimit items. (parseLimit replaces a
\* limit above maxLimit by maxLimit, so the code does not guarantee this.)
C24_BadLimitIsValidationError ==
  lsResp.status # 0 =>
    LET q == lsReq.limit
        a == Atoi(q)
    IN /\ (~IsBlank(q) /\ (~a.ok \/ a.n < 1 \/ a.n > maxLimit))
            => lsResp.status = StatusBadRequest
       /\ IsBlank(q) =>
            /\ lsResp.error # "invalid limit"
            /\ Len(lsResp.items) <= defaultLimit

\* C25: whenever a create response with status 202 stands, its Location
\* names a stored Transaction that equals the response body and is pending;
\* a getTransaction for the ID of such a Location answers 200 with that
\* body, and one for an ID no request has built a Transaction with answers
\* Not Found.
C25_LocationResolves ==
  /\ [](\A p \in Procs :
         resp[p].status = StatusAccepted =>
           \E id \in DOMAIN Transactions :
             /\ resp[p].location = LocationOf(id)
             /\ resp[p].body = MarshalTransaction(Transactions[id])
             /\ Transactions[id].Status = StatusPending)
  /\ [][getResp' # getResp =>
          /\ \A p \in Procs :
               (/\ resp[p].status = StatusAccepted
                /\ resp[p].location = LocationOf(getResp'.id))
               => /\ getResp'.status = StatusOK
                  /\ getResp'.body = resp[p].body
          /\ (/\ getResp'.id # 0
              /\ getResp'.id \notin DOMAIN Transactions
              /\ \A p \in Procs : t[p].ID # getResp'.id)
             => getResp'.status = StatusNotFound]_vars

\* a lookup has answered 200 with the body of a 202 response whose request
\* has not returned yet
C25_Witness ==
  \E p \in Procs :
    /\ pc[p] = "kl_unlock" /\ resp[p].status = StatusAccepted
    /\ getResp.status = StatusOK
    /\ getResp.body = resp[p].body

\* C26: the fingerprints stored with two idempotency entries are equal
\* exactly if the requests that created the entries are equal in
\* from_account_id, to_account_id and amount, whatever the keys, the order
\* and the times of the two submissions; and a request at the cache lookup
\* has the fingerprint of the entry it finds exactly if it is equal to the
\* entry's request in these fields.
C26_FingerprintOfPayloadOnly ==
  /\ \A k1, k2 \in DOMAIN idemCache :
       (PayloadOf(idemCache[k1].Tr) = PayloadOf(idemCache[k2].Tr))
         <=> (idemCache[k1].Hash = idemCache[k2].Hash)
  /\ \A p \in Procs :
       (pc[p] = "check" /\ key[p] \in DOMAIN idemCache) =>
         ((req[p] = PayloadOf(idemCache[key[p]].Tr))
            <=> (fingerprint(req[p]) = idemCache[key[p]].Hash))

\* two entries under different keys, created at different times for equal
\* requests, while a request with another to_account_id is at the lookup
C26_Witness ==
  /\ DOMAIN idemCache = Keys
  /\ idemCache["k1"].CreatedAt # idemCache["k2"].CreatedAt
  /\ idemCache["k1"].Tr.ID # idemCache["k2"].Tr.ID
  /\ idemCache["k1"].Hash = idemCache["k2"].Hash
  /\ \E p \in Procs :
       /\ pc[p] = "check"
       /\ req[p].ToAccountID # idemCache[key[p]].Tr.ToAccountID

\* C27: in the payments server, the 201 responses to requests with the same
\* Idempotency-Key are equal in payment ID, body and Location, and exactly
\* one Payment is stored for a key that has a 201 response (never more than
\* one). (createPayment looks the key up and stores under it in separate
\* critical sections, so the code does not guarantee this.)
C27_OnePaymentPerKey ==
  \A k \in Keys :
    /\ \A p, q \in Procs :
         (/\ payProc[p].key = k /\ payProc[q].key = k
          /\ payProc[p].resp.status = StatusCreated
          /\ payProc[q].resp.status = StatusCreated)
         => payProc[p].resp = payProc[q].resp
    /\ Cardinality({id \in DOMAIN payments : payOrigin[id] = k}) <= 1
    /\ (\E p \in Procs :
          payProc[p].key = k /\ payProc[p].resp.status = StatusCreated)
       => Cardinality({id \in DOMAIN payments : payOrigin[id] = k}) = 1

\* C28: in the first transaction server, submissions with the same
\* Idempotency-Key and the same payload create one Transaction and not
\* more, and their 202 responses agree on the Location. (createTransaction
\* looks the key up and stores under it in separate critical sections, so
\* the code does not guarantee this.)
C28_FirstVariantOneTransactionPerKey ==
  \A k \in Keys :
    (\A p, q \in Procs :
       (finProc[p].key = k /\ finProc[q].key = k /\ finProc[p].pc # "idle"
        /\ finProc[q].pc # "idle") => finProc[p].req = finProc[q].req)
    => /\ Cardinality({id \in DOMAIN finTransactions : finOrigin[id] = k}) <= 1
       /\ \A p, q \in Procs :
            (/\ finProc[p].key = k /\ finProc[q].key = k
             /\ finProc[p].resp.status = StatusAccepted
             /\ finProc[q].resp.status = StatusAccepted)
            => finProc[p].resp.location = finProc[q].resp.location

\* C29: in the first transaction server, no step of a request without
\* Idempotency-Key changes the idempotency cache. (createTransaction calls
\* storeByKey without testing the key, so the code does not guarantee this.)
C29_FirstVariantKeylessLeavesCache ==
  [][\A p \in Procs :
       (finProc[p].key = NoKey /\ finProc'[p].pc # finProc[p].pc)
       => finIdemCache' = finIdemCache]_vars

\* C30: bank deposits lose no update. Once the wait for all the deposits
\* has completed the balance is the initial balance plus the sum of the
\* amounts deposited, and that is what the final Balance() returns,
\* whatever the interleaving of the deposits was.
C30_DepositsLoseNoUpdate ==
  /\ mainProc.pc \in {"final", "done"}
       => balance = mainProc.initial + SumAmounts(Depositors)
  /\ mainProc.pc = "done"
       => mainProc.final = mainProc.initial + SumAmounts(Depositors)

\* main has printed the final balance after deposits of 1 each
C30_Witness ==
  /\ mainProc.pc = "done"
  /\ \A i \in Depositors : dep[i].pc = "returned" /\ dep[i].amount = 1
  /\ mainProc.final = NumDepositors

\* what the contract calls an invalid body of POST /sessions
SessUnknownField(body) == DOMAIN body \ {"userID", "machineID"} # {}
SessMissingFields(body) ==
  {f \in {"userID", "machineID"} : f \notin DOMAIN body \/ body[f] \in {"", " "}}
SessInvalid(body) == SessUnknownField(body) \/ SessMissingFields(body) # {}

\* C31: a POST /sessions with an unknown field or a blank or missing userID
\* or machineID is answered 400 validation_error, the details naming each
\* missing field (a message for an unknown field), and leaves the
\* SessionStore as it was; the store changes only by a request that passed
\* validation, which is answered 201.
C31_InvalidSessionRefused ==
  [][/\ \A p \in Procs :
          (sessProc[p].pc = "idle" /\ sessProc'[p].pc # "idle"
           /\ SessInvalid(sessProc'[p].body))
          => /\ sessProc'[p].pc = "done"
             /\ sessProc'[p].resp.status = StatusBadRequest
             /\ sessProc'[p].resp.error = "validation_error"
             /\ DOMAIN sessProc'[p].resp.details =
                  IF SessUnknownField(sessProc'[p].body) THEN {"message"}
                  ELSE SessMissingFields(sessProc'[p].body)
             /\ sessions' = sessions
     /\ sessions' # sessions
          => \E p \in Procs :
               /\ sessProc[p].pc = "create" /\ sessProc'[p].pc = "done"
               /\ ~SessInvalid(sessProc[p].body)
               /\ sessProc'[p].resp.status = StatusCreated]_vars

\* one request was refused for both fields missing, another added a session
C31_Witness ==
  \E p, q \in Procs :
    /\ sessProc[p].pc = "done" /\ sessProc[p].body = SessEmpty
    /\ DOMAIN sessProc[p].resp.details = {"userID", "machineID"}
    /\ sessProc[q].pc = "done" /\ sessProc[q].resp.status = StatusCreated
    /\ DOMAIN sessions # {}

\* C39: CreateSession never overwrites a session: every call that returns
\* without error has added one session under an ID that was not in the
\* store, so the store holds as many sessions as there were such calls.
\* (The ID is made of the timestamp alone, so the code does not guarantee
\* this for two calls with the same timestamp.)
C39_CreateSessionNeverOverwrites ==
  /\ Cardinality(DOMAIN sessions) = sessCreated
  /\ \A p, q \in Procs :
       (p # q /\ sessProc[p].resp.status = StatusCreated
        /\ sessProc[q].resp.status = StatusCreated)
       => sessProc[p].resp.location # sessProc[q].resp.location

\* the Transaction id was created for a key whose idempotency entry (the one
\* caching this Transaction) is not in the cache
EntryPending(id) ==
  /\ origin[id] # NoKey
  /\ ~(CacheHit(idemCache, origin[id]) /\ idemCache[origin[id]].Tr.ID = id)

\* C32: on a cache miss the Transaction and its idempotency entry become
\* visible together. While the Transaction created for a key is in the
\* store and its entry is not yet written, its creator holds MuTransactions,
\* and no getTransaction answers with a Transaction in that condition.
C32_TransactionAndEntryTogether ==
  /\ [](\A id \in DOMAIN Transactions :
          EntryPending(id)
          => \E p \in Procs :
               pc[p] = "store" /\ t[p].ID = id /\ MuTransactions = p)
  /\ [][(getResp' # getResp /\ getResp'.status = StatusOK)
        => ~EntryPending(getResp'.id)]_vars

\* a keyed Transaction has been read back while the next keyed create stands
\* between its insert and its cache write
C32_Witness ==
  /\ getResp.status = StatusOK
  /\ origin[getResp.id] # NoKey
  /\ \E p \in Procs : pc[p] = "store" /\ EntryPending(t[p].ID)

\* C33: every read, insert and delete of idemCache is done by a thread that
\* holds MuTransactions: a request looks up and inserts only as the holder,
\* the sweeper deletes only as the holder, the cache changes by no other
\* step, and so a sweep pass and a request's lookup-to-insert section never
\* overlap.
C33_CacheOnlyUnderMuTransactions ==
  /\ [](\A p \in Procs : pc[p] \in {"check", "store"} => MuTransactions = p)
  /\ [](swPc \in {"scan", "unlock"} => MuTransactions = SweeperId)
  /\ [](~(/\ swPc \in {"scan", "unlock"}
          /\ \E p \in Procs : pc[p] \in {"check", "store", "tx_unlock"}))
  /\ [][idemCache' # idemCache
        => \/ \E p \in Procs : pc[p] = "store" /\ MuTransactions = p
           \/ swPc = "scan" /\ MuTransactions = SweeperId]_vars

\* a pass is deleting an expired entry while a keyed request waits for
\* MuTransactions
C33_Witness ==
  /\ swPc = "scan"
  /\ Expired(idemCache, swNow) # {}
  /\ \E p \in Procs : pc[p] = "tx_lock"

\* the stored Transactions the filter of the last listing lets through
ListMatching ==
  {Transactions[id] : id \in
     {i \in DOMAIN Transactions :
        \/ lsReq.from \in {"", " "}
        \/ Transactions[i].FromAccountID = TrimSpace(lsReq.from)}}

\* C34: a listing carries a next_cursor exactly when some matching
\* Transaction sorts strictly after the last element of its page; the cursor
\* then holds the (At, ID) of that element and the filter in effect, and an
\* empty page carries none.
C34_NextCursorIffMoreRemain ==
  lsResp.status = StatusOK =>
    IF Len(lsResp.items) = 0 THEN lsResp.next = <<>>
    ELSE LET last == lsResp.items[Len(lsResp.items)] IN
         /\ lsResp.next # <<>>
              <=> \E tx \in ListMatching :
                    \/ tx.At > last.At
                    \/ tx.At = last.At /\ tx.ID > last.ID
         /\ lsResp.next # <<>>
              => /\ decodeCursor(lsResp.next).err = ""
                 /\ decodeCursor(lsResp.next).cur =
                      [At |-> last.At, ID |-> last.ID,
                       FA |-> TrimSpace(lsReq.from)]

\* a second page under a filter that still has a successor, and so a cursor
C34_Witness ==
  /\ lsResp.status = StatusOK
  /\ lsReq.cursor # <<>>
  /\ lsReq.from = "A1"
  /\ Len(lsResp.items) = 1
  /\ lsResp.next # <<>>

\* positions of a keyed request that has left the registry section of
\* acquire (kl.refs++ done, r.mu unlocked) and whose release closure has
\* not yet returned
LivePcs ==
  {"kl_lock", "tx_lock", "check", "store", "tx_unlock", "kl_unlock",
   "rel_lock", "rel_dec", "rel_del"}

\* C35: a keyLock is never removed from the registry while a request is
\* blocked on it or holds it. For every request between the registry
\* section of acquire and the end of its release, the registry entry of its
\* key is the keyLock object the request references; so the requests of one
\* key all reference one object.
C35_LiveKeyLockStaysRegistered ==
  /\ \A p \in Procs :
       pc[p] \in LivePcs
       => key[p] \in DOMAIN regM /\ regM[key[p]] = kl[p] /\ kl[p] # NoKL
  /\ \A p, q \in Procs :
       (pc[p] \in LivePcs /\ pc[q] \in LivePcs /\ key[p] = key[q])
       => kl[p] = kl[q]

\* one request is releasing its key lock while another of the same key is
\* still blocked on it
C35_Witness ==
  \E p, q \in Procs :
    /\ p # q /\ key[p] = key[q]
    /\ pc[p] = "rel_del" /\ pc[q] = "kl_lock"

\* C36: pagination stays stable while Transactions are inserted between the
\* page requests. Over a chain of pages followed from the empty cursor no
\* Transaction comes twice, and when the chain has ended every matching
\* Transaction that was in the store when the first page was taken has come
\* on some page.
C36_PagesStableUnderInserts ==
  lsWalk =>
    /\ \A i, j \in 1..Len(lsSeen) : i < j => lsSeen[i].ID # lsSeen[j].ID
    /\ lsResp.next = <<>>
         => \A id \in DOMAIN lsBase :
              (lsReq.from = "" \/ lsBase[id].FromAccountID = lsReq.from)
              => \E i \in 1..Len(lsSeen) : lsSeen[i] = lsBase[id]

\* a chain of pages has ended, and a Transaction inserted after its first
\* page sorts before one that was returned
C36_Witness ==
  /\ lsWalk /\ lsResp.next = <<>> /\ Len(lsSeen) >= 2
  /\ lsReq.cursor # <<>>
  /\ \E id \in DOMAIN Transactions \ DOMAIN lsBase :
       \E i \in 1..Len(lsSeen) :
         /\ Transactions[id].At = lsSeen[i].At
         /\ id < lsSeen[i].ID

\* request p is inside createTransaction
InFlight(p) == pc[p] \notin {"idle", "done"}

\* request p, or the sweeper, can take its next step
CanRun(p) ==
  CASE pc[p] \in {"acq_lock", "rel_lock"} -> regMu = Free
    [] pc[p] = "kl_lock" -> klMu[kl[p]] = Free
    [] pc[p] \in {"tx_lock", "nk_lock"} -> MuTransactions = Free
    [] OTHER -> InFlight(p)
SweeperCanRun == swPc \in {"scan", "unlock"}

\* C37: the locking protocol is free of deadlock and every request
\* completes. Whatever the mix of keyed requests, keyless requests, lookups
\* and sweeper passes, a request inside createTransaction reaches its end
\* with no mutex held by it, and in no state are all the threads that have
\* something to do blocked.
C37_EveryRequestCompletes ==
  /\ \A p \in Procs : InFlight(p) ~> (pc[p] = "done")
  /\ [](\A p \in Procs :
          pc[p] = "done"
          => /\ MuTransactions # p /\ regMu # p
             /\ \A o \in KLObjs : klMu[o] # p)
  /\ []((\E p \in Procs : InFlight(p))
        => (SweeperCanRun \/ \E p \in Procs : CanRun(p)))

\* a request waits for MuTransactions behind a sweeper pass while another
\* waits for the key lock the first one holds
C37_Witness ==
  /\ swPc = "scan"
  /\ \E p, q \in Procs :
       /\ pc[p] = "tx_lock" /\ pc[q] = "kl_lock" /\ kl[p] = kl[q]

\* requests p and q are the only two received so far, both have returned,
\* and they carried the same key with valid payloads of different
\* fingerprints
Rivals(p, q) ==
  /\ p # q /\ started = 2
  /\ pc[p] = "done" /\ pc[q] = "done"
  /\ key[p] # NoKey /\ key[p] = key[q]
  /\ validateTransactionRequest(req[p]) = <<>>
  /\ validateTransactionRequest(req[q]) = <<>>
  /\ fingerprint(req[p]) # fingerprint(req[q])

\* C38: of two concurrent valid submissions with one key and different
\* fingerprints, whatever the interleaving, one creates a Transaction and
\* is answered with it and the other is answered Conflict; afterwards the
\* key has one Transaction and one idempotency entry, and the entry carries
\* the fingerprint of the one that created.
C38_OneWinnerOneConflict ==
  \A p, q \in Procs :
    Rivals(p, q) =>
      /\ {resp[p].status, resp[q].status} = {StatusAccepted, StatusConflict}
      /\ Cardinality(TxOf(key[p])) = 1
      /\ key[p] \in DOMAIN idemCache
      /\ \A w \in {p, q} :
           resp[w].status = StatusAccepted
           => /\ idemCache[key[p]].Hash = fingerprint(req[w])
              /\ idemCache[key[p]].Tr.ID \in TxOf(key[p])
              /\ resp[w].location = LocationOf(idemCache[key[p]].Tr.ID)
              /\ PayloadOf(idemCache[key[p]].Tr) = req[w]

\* the second of the two requests received was the one that created
C38_Witness ==
  \E p, q \in Procs :
    /\ Rivals(p, q) /\ p < q
    /\ resp[q].status = StatusAccepted /\ resp[p].status = StatusConflict

\* ------------------------------------ the two variants run side by side
\* One variant (the leader) runs freely over all its interleavings; the other
\* receives the same requests and passes its MuTransactions sections in the
\* order the leader passed them. Both draw their IDs from equal sources, so
\* "up to generated IDs" becomes plain equality.
SideBySideInit ==
  /\ Transactions = EmptyMap
  /\ idemCache = EmptyMap
  /\ MuTransactions = Free
  /\ regMu = Free
  /\ regM = EmptyMap
  /\ klRefs = [o \in KLObjs |-> 0]
  /\ klMu = [o \in KLObjs |-> Free]
  /\ pc = [p \in Procs |-> "idle"]
  /\ key = [p \in Procs |-> NoKey]
  /\ req = [p \in Procs |-> P1]
  /\ kl = [p \in Procs |-> NoKL]
  /\ t = [p \in Procs |-> ZeroTransaction]
  /\ resp = [p \in Procs |-> NoResponse]
  /\ started = 0
  /\ nextID = 1
  /\ now = 0
  /\ swPc = "select"
  /\ swNow = 0
  /\ ctxDone = FALSE
  /\ tickPending = FALSE
  /\ evicted = {}
  /\ origin = EmptyMap
  /\ ReaderInit /\ PostapiInit /\ FintechInit /\ BankInit
  /\ \E l \in {"perkey", "global"} : glob = [GlobStart EXCEPT !.leader = l]

\* positions of the per-key variant after its cache lookup or keyless insert
PastCheck == {"store", "tx_unlock", "kl_unlock"} \cup ReleasePcs \cup {"done"}

\* positions of the global-lock variant after its cache lookup or keyless insert
GPast == {"g_store", "g_unlock", "done"}

SameRequest(p) == gProc[p].key = key[p] /\ gProc[p].req = req[p]

\* the global-lock variant has done all the per-key variant has done
GlobalCaughtUp ==
  /\ started = gStarted
  /\ \A p \in Procs :
       IF pc[p] = "idle" THEN gProc[p].pc = "idle"
       ELSE /\ SameRequest(p)
            /\ IF pc[p] \in PastCheck THEN gProc[p].pc = "done"
               ELSE gProc[p].pc \in {"g_lock", "g_nk_lock"}

\* the per-key variant has done all the global-lock variant has done; its
\* handler returns once the handler of the global-lock variant has returned
PerKeyCaughtUp ==
  /\ started = gStarted
  /\ \A p \in Procs :
       IF gProc[p].pc = "idle" THEN pc[p] = "idle"
       ELSE /\ SameRequest(p)
            /\ IF gProc[p].pc = "done" THEN pc[p] = "done"
               ELSE IF gProc[p].pc \in GPast THEN pc[p] = "rel_lock"
               ELSE pc[p] \in {"acq_lock", "nk_lock"}

\* the per-key variant receives a valid request
PerKeyArrival ==
  \E p \in Procs, k \in Keys \cup {NoKey}, in \in {P1, P2} : Start(p, k, in)

\* the steps of one request of the per-key variant after its arrival
PerKeyRun(p) ==
  \/ AcquireLock(p)
  \/ AcquireGet(p)
  \/ AcquireInc(p)
  \/ KeyLockLock(p)
  \/ TxLock(p)
  \/ Check(p)
  \/ Store(p)
  \/ TxUnlock(p)
  \/ KeyLockUnlock(p)
  \/ ReleaseLock(p)
  \/ ReleaseDec(p)
  \/ ReleaseDel(p)
  \/ NoKeyLock(p)
  \/ NoKeyPut(p)

\* the global-lock variant receives a valid request
GlobalArrival ==
  \E p \in Procs, k \in Keys \cup {NoKey}, in \in {P1, P2} :
    /\ \A q \in Procs : q < p => gProc[q].pc \notin {"idle", "done"}
    /\ GStart(p, k, in)

\* the steps of one request of the global-lock variant after its arrival
GlobalRun(p) ==
  \/ GLock(p)
  \/ GCheck(p)
  \/ GStore(p)
  \/ GUnlock(p)
  \/ GNoKeyLock(p)
  \/ GNoKeyPut(p)

\* the global-lock variant follows: it receives the request the per-key
\* variant received, and runs a request through its MuTransactions section
\* as soon as the per-key variant has passed its own
GlobalFollows ==
  \/ \E p \in Procs :
       /\ started = gStarted + 1
       /\ pc[p] \notin PastCheck \cup {"idle"}
       /\ gProc[p].pc \in {"idle", "done"}
       /\ GStart(p, key[p], req[p])
  \/ \E p \in Procs : pc[p] \in PastCheck /\ GlobalRun(p)

\* the per-key variant follows the global-lock variant in the same way
PerKeyFollows ==
  \/ \E p \in Procs :
       /\ gStarted = started + 1
       /\ gProc[p].pc \notin GPast \cup {"idle"}
       /\ pc[p] \in {"idle", "done"}
       /\ Start(p, gProc[p].key, gProc[p].req)
  \/ \E p \in Procs :
       /\ gProc[p].pc \in GPast
       /\ pc[p] = "rel_lock" => gProc[p].pc = "done"
       /\ PerKeyRun(p)

SideBySideStep ==
  \/ /\ leader = "perkey"
     /\ \/ GlobalCaughtUp /\ (PerKeyArrival \/ \E p \in Procs : PerKeyRun(p))
        \/ GlobalFollows
  \/ /\ leader = "global"
     /\ \/ PerKeyCaughtUp /\ (GlobalArrival \/ \E p \in Procs : GlobalRun(p))
        \/ PerKeyFollows

\* no sweeper is started and the clock stands
SpecSideBySide == SideBySideInit /\ [][SideBySideStep]_vars

\* the follower has done all the leader has done
CaughtUp == IF leader = "perkey" THEN GlobalCaughtUp ELSE PerKeyCaughtUp

\* no request stands between its insert into Transactions and its cache write
NoHalfCreate ==
  \A p \in Procs : pc[p] # "store" /\ gProc[p].pc # "g_store"

\* the fields of an idemRecord that both variants have
CommonFields(rec) ==
  [Hash |-> rec.Hash, Tr |-> rec.Tr, StatusCode |-> rec.StatusCode]

\* C40: without a sweep the per-key-lock variant and the global-lock variant
\* are observationally equivalent: whichever variant runs freely, over every
\* interleaving of keyed and keyless requests, the other variant can receive
\* the same requests and pass its MuTransactions sections in the same order
\* (it is never stuck behind), and then every request has the same response
\* in both (created, replayed or conflict, with Location and body), the
\* Transactions maps are equal and the caches hold the same keys with the
\* same Hash, Tr and StatusCode.
C40_VariantsAgree ==
  /\ (leader = "perkey" /\ ~GlobalCaughtUp) => ENABLED GlobalFollows
  /\ (leader = "global" /\ ~PerKeyCaughtUp) => ENABLED PerKeyFollows
  /\ (leader \in {"perkey", "global"} /\ CaughtUp) =>
       /\ \A p \in Procs :
            (pc[p] \in PastCheck \ {"store"}
               /\ gProc[p].pc \in GPast \ {"g_store"})
              => resp[p] = gProc[p].resp
       /\ NoHalfCreate =>
            /\ Transactions = gTransactions
            /\ DOMAIN idemCache = DOMAIN gIdemCache
            /\ \A k \in DOMAIN idemCache :
                 CommonFields(idemCache[k]) = gIdemCache[k]

\* all requests were received and answered in both variants, with the
\* per-key variant run freely: two requests reused one key, one of them with
\* another body, and a keyless request inserted its Transaction
C40_Witness ==
  /\ leader = "perkey"
  /\ started = MaxRequests
  /\ GlobalCaughtUp
  /\ \A p \in Procs : pc[p] = "done" /\ gProc[p].pc = "done"
  /\ \E p \in Procs : gProc[p].resp.status = StatusConflict
  /\ \E id \in DOMAIN gTransactions : origin[id] = NoKey

====
